---- MODULE Spec2Model ----
(***************************************************************************)
(* Signal/slot dispatch of libcomp.                                        *)
(*                                                                         *)
(* The repository holds two revisions of the signal core side by side:     *)
(*   "impl"    SignalConceptImpl / SignalConcept::ConnectionConcept        *)
(*             (include/comp/concept/signal_impl.hpp, src/comp_lib.cpp),   *)
(*             the one tests/test_signal.cpp runs against;                 *)
(*   "concept" SignalConcept / SlotConcept / ConnectionTracker / Collector *)
(*             (include/comp/concept/signal.hpp, slot_concept_impl.hpp,    *)
(*             signal_concept_impl.hpp), the one tests/test_trackers.cpp   *)
(*             runs against.                                               *)
(* A behaviour runs one revision, chosen by Init.  One thread runs user    *)
(* code: the main program while the stack is empty, the callable of the    *)
(* slot being activated while the top emission frame is active.  User code *)
(* may call any operation of the library, so every callable is the most    *)
(* general callable.                                                       *)
(***************************************************************************)
EXTENDS Integers, Sequences, FiniteSets, TLC

\* Bounds of the model.
MaxOps == 3
MaxConn == 4
MaxBind == 2
\* The program starts with no connection, or with InitSlots function slots
\* connected: the last of them to signal 2, the others to signal 1.
InitSlots == 3

NULL == 0
Signals == {1, 2}
ConnIds == 1..MaxConn
\* Receiver objects of method slots: "N" derives from DeleteObserver::Notifier,
\* "P" is a plain class held by shared_ptr.
Receivers == {"N", "P"}
\* Trackers: "T" derives from ConnectionTracker and is bound by raw pointer,
\* "W" is a shared_ptr to a plain object.
Trackers == {"T", "W"}
Objects == Receivers \cup Trackers

\* Properties: "P" and "R" may be bound to expressions that read another
\* property, "Q" holds stored values only.
Props == {"P", "R", "Q"}
MaxProv == 5
MaxPropOps == 4
ProvIds == 1..MaxProv
\* No property: the null of a pointer to a property.
NoProp == "none"
\* The values a property of the model holds; T() is 0.
Values == {0, 1}

VARIABLES
    variant,              \* revision of the signal core the behaviour runs
    m_isBlocked,          \* SignalConcept::m_isBlocked, per signal
    m_emitGuard,          \* SignalConcept::m_emitGuard (FlagGuard), per signal
    nextId,               \* next connection to create; ids follow connect order
    owner,                \* the signal each connection was created on
    stack,                \* the emissions in progress, outermost first
    slotLock,             \* the mutex of each slot / connection
    exc,                  \* "user" while an exception travels through user code
    lastCall,             \* what the library call that has just ended reported
    ops,                  \* number of operations user code has called so far
    alive,                \* objects not yet destroyed
    owned,                \* receivers the program still holds a shared_ptr to
    \* revision "impl"
    m_connections,        \* SignalConcept::m_connections, per signal
    m_signal,             \* ConnectionConcept::m_signal, per connection
    m_target,             \* MethodConnection::m_target ("none" for a function)
    m_observers,          \* DeleteObserver::Notifier::m_observers of "N"
    \* revision "concept"
    m_slots,              \* SignalConcept::m_slots, per signal
    m_isConnected,        \* SlotConcept::m_isConnected, per slot
    m_trackers,           \* SlotConcept::m_trackers, per slot
    m_trackedConnections, \* ConnectionTracker::m_trackedConnections of "T"
    \* lifetime of the signals
    sigAlive,             \* signals not yet destroyed
    m_host,               \* Signal<R(Host::*)(A...)>::m_host ("none": standalone)
    hostOwned,            \* the program holds a shared_ptr to the host object
    m_receiver,           \* SignalConnection::m_receiver, SignalSlot::m_receiver
    sig_observers,        \* DeleteObserver::Notifier::m_observers of each signal
    sig_tracked,          \* ConnectionTracker::m_trackedConnections of each signal
    \* properties
    bindingClass,         \* the class of the bindings: ExpressionBinding, BindingConcept
    propAlive,            \* properties not yet destroyed
    m_vp,                 \* PropertyConcept::m_vp, per property
    m_active,             \* PropertyConcept::m_active, per property
    m_connectedPropertyValues, \* core::Property::m_connectedPropertyValues
    changed,              \* PropertyCore::changed: its connections to other changed signals
    m_state,              \* PropertyValue::m_state, per provider
    pv_target,            \* PropertyValue::m_target, per provider
    writeBehavior,        \* PropertyValue::writeBehavior, per provider
    m_data,               \* PropertyData::m_data, UserData::m_data
    m_expression,         \* the property the expression of a binding reads
    m_sourceProperties,   \* core::Value::m_sourceProperties, per provider
    nextProv,             \* next provider to create
    propCall,             \* what the last call on a property did
    pops,                 \* number of calls made on properties so far
    \* programs of two threads
    BindingScope_current, \* BindingScope::current, one static for all threads
    evaluation,           \* the binding evaluation thread X is in the middle of
    threads,              \* what each thread is doing in the library
    sigHolder,            \* the thread that holds the lock of the signal
    slotHolder,           \* the thread that holds the lock of each slot
    guardFault,           \* the FlagGuard assertions that have failed
    \* history
    disconnected,         \* handles whose disconnect() has returned
    connectedInEmit       \* connections made while their signal was emitting

common == <<m_isBlocked, m_emitGuard, nextId, owner, stack, slotLock, exc,
            lastCall, ops, alive, owned>>
implVars == <<m_connections, m_signal, m_target, m_observers>>
conceptVars == <<m_slots, m_isConnected, m_trackers, m_trackedConnections>>
lifeVars == <<sigAlive, m_host, hostOwned, m_receiver, sig_observers, sig_tracked>>
propVars == <<bindingClass, propAlive, m_vp, m_active, m_connectedPropertyValues, changed,
              m_state, pv_target, writeBehavior, m_data, m_expression, m_sourceProperties,
              nextProv, propCall, pops>>
threadVars == <<BindingScope_current, evaluation, threads, sigHolder, slotHolder, guardFault>>
history == <<disconnected, connectedInEmit>>
vars == <<variant, common, implVars, conceptVars, lifeVars, propVars, threadVars, history>>

----------------------------------------------------------------------------
\* wrap/vector.hpp and the standard algorithms it wraps.

Contains(seq, x) == \E i \in 1..Len(seq) : seq[i] = x
Range(seq) == {seq[i] : i \in 1..Len(seq)}

IndexOf(seq, x) == CHOOSE i \in 1..Len(seq) : seq[i] = x /\ \A j \in 1..(i - 1) : seq[j] # x

erase_first(seq, x) ==
    IF Contains(seq, x)
    THEN SubSeq(seq, 1, IndexOf(seq, x) - 1) \o SubSeq(seq, IndexOf(seq, x) + 1, Len(seq))
    ELSE seq

erase(seq, x) == SelectSeq(seq, LAMBDA e : e # x)

emplace_back(seq, x) == Append(seq, x)

pop_back(seq) == SubSeq(seq, 1, Len(seq) - 1)

----------------------------------------------------------------------------
\* wrap/mutex.hpp

lock_guard_ctor(locks, m) == [locks EXCEPT ![m] = TRUE]
\* Faulty variant: the guard goes out of scope without unlocking.
KeepLocked(locks, m) == locks

lock_guard_dtor(locks, m) == [locks EXCEPT ![m] = FALSE]
relock_guard_ctor(locks, m) == [locks EXCEPT ![m] = FALSE]
relock_guard_dtor(locks, m) == [locks EXCEPT ![m] = TRUE]
\* Faulty variant: the flag always reads unlocked.
NeverLocked(locks, m) == FALSE

FlagGuard_isLocked(locks, m) == locks[m]

----------------------------------------------------------------------------
\* The stack of emissions.

Top == stack[Len(stack)]
Pop(stk) == SubSeq(stk, 1, Len(stk) - 1)
\* The connection whose callable the frame is running.
Current(f) == f.slots[f.idx + 1]
\* The slot frame f has activated forwards to a signal: its activateOverride
\* is library code that calls emit on the receiver (SignalConnection,
\* SignalSlot).
Forwarding(f) == f.active /\ m_receiver[Current(f)] # NULL
\* User code runs: the main program, or the callable of an activated slot.
UserCode ==
    exc = "none" /\ (IF stack = <<>> THEN TRUE ELSE Top.active /\ ~Forwarding(Top))
\* The activation of the current slot of the top frame returns: the callable
\* returns, or the emit a forwarding slot made on its receiver has returned.
SlotReturns ==
    /\ exc = "none" /\ stack # <<>> /\ Top.active
    /\ IF Forwarding(Top) THEN Top.fwd # "no" ELSE TRUE
\* User code calls an operation of the library.
Call == UserCode /\ ops < MaxOps
\* The library runs the dispatch loop of the top emission.
InLoop == exc = "none" /\ stack # <<>> /\ ~Top.active

\* What the program can observe of a connection, read off the state: the
\* connection is connected while its flag (its signal pointer) is set and every
\* tracker bound to it is alive.
Connected(c) ==
    IF variant = "impl"
    THEN m_signal[c] # NULL
    ELSE m_isConnected[c] /\ \A i \in 1..Len(m_trackers[c]) : alive[m_trackers[c][i]]

\* A frame is one emission in progress: the snapshot `slots`, the loop index,
\* whether the callable of the current slot runs, the result counted so far,
\* and the record of the turns taken.  snapValid and born record the
\* connections that were connected when the snapshot was taken and the id the
\* next connection would get; pins tells that the emission holds a shared_ptr
\* to the host of its member signal (lockedHost); fwd tells what became of
\* the emit the current forwarding slot made on its receiver; owed records the slots that the emit called just
\* before on the same signal left without a turn when its collector stopped it.
Frame(s, snapshot, valid, born) ==
    [sig |-> s, slots |-> snapshot, idx |-> 0, active |-> FALSE, stop |-> FALSE,
     result |-> 0, turns |-> <<>>, snapValid |-> valid, born |-> born, owed |-> {},
     pins |-> FALSE, fwd |-> "no"]

NoFrame == Frame(NULL, <<>>, {}, 0)

\* The record of one turn of the loop: whether the slot was connected,
\* whether its handle had been disconnected and whether its signal was
\* blocked when the turn began, whether the loop activated it, whether its
\* callable ran, whether the activation failed.
Turn(c, activated, ran, failed) ==
    [conn |-> c, connected |-> Connected(c), late |-> c \in disconnected,
     blocked |-> m_isBlocked[owner[c]],
     activated |-> activated, ran |-> ran, failed |-> failed, forward |-> "no"]

NoCall == [how |-> "none", sig |-> NULL, result |-> 0, frame |-> NoFrame, bound |-> {}]

\* emit returned `result`; how it ended, and the frame it ran in.
Returned(how, s, result, f) ==
    [how |-> how, sig |-> s, result |-> result, frame |-> f, bound |-> {}]

\* disconnectTrackedConnections returned; `slots` were bound to the tracker.
Cleared(slots) ==
    [how |-> "cleared", sig |-> NULL, result |-> 0, frame |-> NoFrame, bound |-> slots]

\* The connected slots that the emit which has just returned left without a
\* turn, when that emit was one of signal s stopped by its collector.
Owed(s) ==
    IF lastCall.how = "stopped" /\ lastCall.sig = s
    THEN {lastCall.frame.slots[j] : j \in (lastCall.frame.idx + 1)..Len(lastCall.frame.slots)}
             \cap {c \in ConnIds : Connected(c)}
    ELSE {}

\* An emission of signal s is in progress.
Emitting(s) == \E i \in 1..Len(stack) : stack[i].sig = s

RanCount(f) == Cardinality({i \in 1..Len(f.turns) : f.turns[i].ran})

----------------------------------------------------------------------------
\* Revision "impl": src/comp_lib.cpp

ImplState == [m_connections |-> m_connections, m_signal |-> m_signal]

ConnectionConcept_isValid(st, c) == st.m_signal[c] # NULL

\* Faulty variant: the connection leaves its signal but keeps m_signal.
disconnect_keepsSignal(st, c) ==
    IF st.m_signal[c] = NULL
    THEN st
    ELSE [st EXCEPT !.m_connections[st.m_signal[c]] = erase_first(@, c)]

\* Faulty variant: nothing is removed.
removeConnection_nothing(st, s, c) == st

RECURSIVE ConnectionConcept_disconnect(_, _)
RECURSIVE SignalConcept_removeConnection(_, _, _)

ConnectionConcept_disconnect(st, c) ==
    IF ~ConnectionConcept_isValid(st, c)
    THEN st
    ELSE LET tmp == st.m_signal[c]
             st1 == [st EXCEPT !.m_signal[c] = NULL]
         IN  SignalConcept_removeConnection(st1, tmp, c)

SignalConcept_removeConnection(st, s, c) ==
    IF Contains(st.m_connections[s], c)
    THEN LET st1 == [st EXCEPT !.m_connections[s] = erase_first(@, c)]
         IN  ConnectionConcept_disconnect(st1, c)
    ELSE st

\* Faulty variant: the new connection goes to the front of the container.
addConnection_front(conns, s, c) == [conns EXCEPT ![s] = <<c>> \o @]

SignalConcept_addConnection(conns, s, c) ==
    [conns EXCEPT ![s] = emplace_back(@, c)]

\* ~Notifier: every observer that is still alive is notified, and
\* ConnectionConcept::notifyDeleted disconnects it.
RECURSIVE Notifier_dtor(_, _)
Notifier_dtor(st, observers) ==
    IF observers = <<>>
    THEN st
    ELSE Notifier_dtor(ConnectionConcept_disconnect(st, Head(observers)), Tail(observers))

\* A method slot holds its receiver by a strong pointer while the method runs
\* (MethodConnection::activateOverride, `auto slot = m_target.lock()`).
HeldByFrame(stk, r) ==
    \E i \in 1..Len(stk) : stk[i].active /\ m_target[Current(stk[i])] = r

\* The last shared_ptr to receiver r is gone: the object is destroyed, and a
\* Notifier tells its observers.
DestroyReceiver(st, r) ==
    IF r = "N" THEN Notifier_dtor(st, m_observers) ELSE st

\* The strong pointer of the frame being left (stk is the stack without it)
\* is released; the receiver dies with it when nobody else holds it.
Dying(stk, c) ==
    /\ m_target[c] # "none"
    /\ alive[m_target[c]]
    /\ ~owned[m_target[c]]
    /\ ~HeldByFrame(stk, m_target[c])

ReleaseReceiver(st, stk, c) ==
    IF Dying(stk, c) THEN DestroyReceiver(st, m_target[c]) ELSE st

AliveAfterRelease(stk, c) ==
    IF Dying(stk, c) THEN [alive EXCEPT ![m_target[c]] = FALSE] ELSE alive

ObserversAfterRelease(stk, c) ==
    IF Dying(stk, c) /\ m_target[c] = "N" THEN <<>> ELSE m_observers

\* Connection handles of revision "impl" are shared pointers to the
\* connection: ConnectionConcept::isValid.
ImplHandleValid(c) == ConnectionConcept_isValid(ImplState, c)

----------------------------------------------------------------------------
\* Revision "impl": the operations of SignalConceptImpl
\* (include/comp/concept/signal_impl.hpp).

Created == 1..(nextId - 1)

SetImpl(st) ==
    /\ m_connections' = st.m_connections
    /\ m_signal' = st.m_signal

\* Faulty variant: the emissions in progress iterate the live container, so
\* the new connection joins them.
Impl_connect_live(s) ==
    /\ variant = "impl" /\ Call
    /\ sigAlive[s]
    /\ nextId <= MaxConn
    /\ m_connections' = SignalConcept_addConnection(m_connections, s, nextId)
    /\ m_signal' = [m_signal EXCEPT ![nextId] = s]
    /\ owner' = [owner EXCEPT ![nextId] = s]
    /\ nextId' = nextId + 1
    /\ connectedInEmit' = IF Emitting(s) THEN connectedInEmit \cup {nextId}
                                          ELSE connectedInEmit
    /\ stack' = [i \in 1..Len(stack) |->
                    IF stack[i].sig = s
                    THEN [stack[i] EXCEPT !.slots = Append(@, nextId)]
                    ELSE stack[i]]
    /\ lastCall' = NoCall
    /\ ops' = ops + 1
    /\ UNCHANGED <<variant, propVars, threadVars, lifeVars, m_isBlocked, m_emitGuard, slotLock, exc, alive, owned,
                   m_target, m_observers, conceptVars, disconnected>>

\* connect(function)
Impl_connect(s) ==
    /\ variant = "impl" /\ Call
    /\ sigAlive[s]
    /\ nextId <= MaxConn
    /\ m_connections' = SignalConcept_addConnection(m_connections, s, nextId)
    /\ m_signal' = [m_signal EXCEPT ![nextId] = s]
    /\ owner' = [owner EXCEPT ![nextId] = s]
    /\ nextId' = nextId + 1
    /\ connectedInEmit' = IF Emitting(s) THEN connectedInEmit \cup {nextId}
                                          ELSE connectedInEmit
    /\ lastCall' = NoCall
    /\ UNCHANGED <<variant, propVars, threadVars, lifeVars, m_isBlocked, m_emitGuard, stack, slotLock, exc, alive, owned, m_target, m_observers, conceptVars, disconnected>>
    /\ ops' = ops + 1

\* connect(receiver, method); a connection to a Notifier watches its receiver.
Impl_connect_method(s, r) ==
    /\ variant = "impl" /\ Call
    /\ sigAlive[s]
    /\ nextId <= MaxConn
    /\ owned[r]
    /\ m_connections' = SignalConcept_addConnection(m_connections, s, nextId)
    /\ m_signal' = [m_signal EXCEPT ![nextId] = s]
    /\ m_target' = [m_target EXCEPT ![nextId] = r]
    /\ m_observers' = IF r = "N" THEN emplace_back(m_observers, nextId) ELSE m_observers
    /\ owner' = [owner EXCEPT ![nextId] = s]
    /\ nextId' = nextId + 1
    /\ connectedInEmit' = IF Emitting(s) THEN connectedInEmit \cup {nextId}
                                          ELSE connectedInEmit
    /\ lastCall' = NoCall
    /\ UNCHANGED <<variant, propVars, threadVars, lifeVars, m_isBlocked, m_emitGuard, stack, slotLock, exc, alive, owned, conceptVars, disconnected>>
    /\ ops' = ops + 1

\* connection->disconnect() on a handle the program holds.
Impl_handle_disconnect(c) ==
    /\ variant = "impl" /\ Call
    /\ c \in Created
    /\ SetImpl(ConnectionConcept_disconnect(ImplState, c))
    /\ disconnected' = disconnected \cup {c}
    /\ lastCall' = NoCall
    /\ UNCHANGED <<variant, propVars, threadVars, lifeVars, m_isBlocked, m_emitGuard, nextId, owner, stack, slotLock, exc,
                   alive, owned, m_target, m_observers, conceptVars, connectedInEmit>>
    /\ ops' = ops + 1

\* signal.disconnect(connection)
Impl_signal_disconnect(s, c) ==
    /\ variant = "impl" /\ Call
    /\ sigAlive[s]
    /\ c \in Created
    /\ SetImpl(SignalConcept_removeConnection(ImplState, s, c))
    /\ lastCall' = NoCall
    /\ UNCHANGED <<variant, propVars, threadVars, lifeVars, m_isBlocked, m_emitGuard, nextId, owner, stack, slotLock, exc,
                   alive, owned, m_target, m_observers, conceptVars, history>>
    /\ ops' = ops + 1

\* The program drops its shared_ptr to a receiver.
DropReceiver(r) ==
    /\ variant = "impl" /\ Call
    /\ owned[r]
    /\ owned' = [owned EXCEPT ![r] = FALSE]
    /\ IF HeldByFrame(stack, r)
       THEN UNCHANGED <<alive, implVars>>
       ELSE /\ alive' = [alive EXCEPT ![r] = FALSE]
            /\ SetImpl(DestroyReceiver(ImplState, r))
            /\ m_observers' = IF r = "N" THEN <<>> ELSE m_observers
            /\ UNCHANGED m_target
    /\ lastCall' = NoCall
    /\ UNCHANGED <<variant, propVars, threadVars, lifeVars, m_isBlocked, m_emitGuard, nextId, owner, stack, slotLock,
                   exc, conceptVars, history>>
    /\ ops' = ops + 1

\* SignalConceptImpl::emit up to the dispatch loop.
Impl_emit(s) ==
    /\ variant = "impl" /\ Call
    /\ sigAlive[s]
    /\ IF m_isBlocked[s] \/ FlagGuard_isLocked(m_emitGuard, s)
       THEN /\ lastCall' = Returned("suppressed", s, -1, NoFrame)
            /\ UNCHANGED <<m_emitGuard, stack, m_connections>>
       ELSE /\ m_emitGuard' = lock_guard_ctor(m_emitGuard, s)
            /\ LET cleaned == SelectSeq(m_connections[s], LAMBDA c : ImplHandleValid(c))
               IN  /\ m_connections' = [m_connections EXCEPT ![s] = cleaned]
                   /\ stack' = Append(stack, [Frame(s, cleaned,
                                   {c \in Created : owner[c] = s /\ Connected(c)}, nextId)
                                       EXCEPT !.pins = m_host[s] # "none"])
            /\ lastCall' = NoCall
    /\ UNCHANGED <<variant, propVars, threadVars, lifeVars, m_isBlocked, nextId, owner, slotLock, exc, alive, owned,
                   m_signal, m_target, m_observers, conceptVars, history>>
    /\ ops' = ops + 1

\* One turn of the dispatch loop of SignalConceptImpl::emit.
Impl_emit_loop ==
    /\ variant = "impl" /\ InLoop
    /\ Top.idx < Len(Top.slots)
    /\ LET f == Top
           n == Len(stack)
           c == Current(Top)
           locked == lock_guard_ctor(slotLock, c)
       IN  /\ ~slotLock[c]
           /\ IF ~ConnectionConcept_isValid(ImplState, c)
              THEN \* continue
                   /\ stack' = [stack EXCEPT ![n] = [f EXCEPT !.idx = @ + 1,
                                   !.turns = Append(@, Turn(c, FALSE, FALSE, FALSE))]]
                   /\ slotLock' = lock_guard_dtor(locked, c)
                   /\ UNCHANGED <<m_connections, m_signal>>
              ELSE IF m_target[c] = "none" \/ alive[m_target[c]]
              THEN \* ++result; the slot lock is released; the callable runs
                   /\ stack' = [stack EXCEPT ![n] = [f EXCEPT !.active = TRUE,
                                   !.result = @ + 1,
                                   !.turns = Append(@, Turn(c, TRUE, TRUE, FALSE))]]
                   /\ slotLock' = relock_guard_ctor(locked, c)
                   /\ UNCHANGED <<m_connections, m_signal>>
              ELSE \* ++result; activateOverride throws bad_slot; catch: disconnect(*slot)
                   /\ stack' = [stack EXCEPT ![n] = [f EXCEPT !.idx = @ + 1,
                                   !.result = @ + 1,
                                   !.turns = Append(@, Turn(c, TRUE, FALSE, TRUE))]]
                   /\ slotLock' = lock_guard_dtor(relock_guard_dtor(relock_guard_ctor(
                                      relock_guard_dtor(relock_guard_ctor(locked, c), c), c), c), c)
                   /\ SetImpl(SignalConcept_removeConnection(ImplState, f.sig, c))
    /\ lastCall' = NoCall
    /\ UNCHANGED <<variant, propVars, threadVars, lifeVars, m_isBlocked, m_emitGuard, nextId, owner, exc, ops,
                   alive, owned, m_target, m_observers, conceptVars, history>>

\* The callable returns; the turn ends.
Impl_slot_return ==
    /\ variant = "impl" /\ SlotReturns
    /\ LET f == Top
           n == Len(stack)
           c == Current(Top)
           stk == [stack EXCEPT ![n] = [f EXCEPT !.idx = @ + 1, !.active = FALSE,
                                                 !.fwd = "no",
                                                 !.turns[Len(f.turns)].forward = f.fwd]]
       IN  /\ stack' = stk
           /\ slotLock' = lock_guard_dtor(relock_guard_dtor(slotLock, c), c)
           /\ SetImpl(ReleaseReceiver(ImplState, stk, c))
           /\ alive' = AliveAfterRelease(stk, c)
           /\ m_observers' = ObserversAfterRelease(stk, c)
    /\ lastCall' = NoCall
    /\ UNCHANGED <<variant, propVars, threadVars, lifeVars, m_isBlocked, m_emitGuard, nextId, owner, exc, ops,
                   owned, m_target, conceptVars, history>>

\* The callable fails with bad_slot or bad_weak_ptr: the loop catches it,
\* disconnects the slot and goes on.
Impl_slot_bad ==
    /\ variant = "impl" /\ UserCode /\ stack # <<>>
    /\ LET f == Top
           n == Len(stack)
           c == Current(Top)
           stk == [stack EXCEPT ![n] = [f EXCEPT !.idx = @ + 1, !.active = FALSE,
                                                 !.turns[Len(f.turns)].failed = TRUE]]
           st == ReleaseReceiver(ImplState, stk, c)
       IN  /\ stack' = stk
           /\ slotLock' = lock_guard_dtor(relock_guard_dtor(relock_guard_ctor(
                              relock_guard_dtor(slotLock, c), c), c), c)
           /\ SetImpl(SignalConcept_removeConnection(st, f.sig, c))
           /\ alive' = AliveAfterRelease(stk, c)
           /\ m_observers' = ObserversAfterRelease(stk, c)
    /\ lastCall' = NoCall
    /\ UNCHANGED <<variant, propVars, threadVars, lifeVars, m_isBlocked, m_emitGuard, nextId, owner, exc, ops,
                   owned, m_target, conceptVars, history>>

----------------------------------------------------------------------------
\* Revision "concept": slots, trackers and connection handles
\* (include/comp/concept/signal.hpp, slot_concept_impl.hpp).

ConceptState ==
    [m_slots |-> m_slots, m_isConnected |-> m_isConnected, m_trackers |-> m_trackers,
     m_trackedConnections |-> m_trackedConnections]

SetConcept(st) ==
    /\ m_slots' = st.m_slots
    /\ m_isConnected' = st.m_isConnected
    /\ m_trackers' = st.m_trackers
    /\ m_trackedConnections' = st.m_trackedConnections

\* Faulty variant: a tracker never reports its object gone.
AlwaysValid(t) == TRUE

\* PtrTracker::isValid is constant; WeakPtrTracker::isValid locks the weak
\* pointer.
TrackerInterface_isValid(t) == IF t = "T" THEN TRUE ELSE alive[t]

\* Faulty variant: only the flag is consulted.
FlagOnly(st, k) == st.m_isConnected[k]

SlotConcept_isConnected(st, k) ==
    IF ~st.m_isConnected[k]
    THEN FALSE
    ELSE \A i \in 1..Len(st.m_trackers[k]) : TrackerInterface_isValid(st.m_trackers[k][i])

\* The slot object lives while a signal or the snapshot of an emission in
\* progress holds a shared pointer to it; a Connection holds a weak one.
SlotAlive(st, stk, k) ==
    \/ \E s \in Signals : Contains(st.m_slots[s], k)
    \/ \E i \in 1..Len(stk) : Contains(stk[i].slots, k)

Connection_bool(st, stk, k) ==
    SlotAlive(st, stk, k) /\ SlotConcept_isConnected(st, k)

\* Connection declares no operator==: std::find compares two connections
\* through their conversion to bool.
Connection_equal(st, stk, a, b) == Connection_bool(st, stk, a) = Connection_bool(st, stk, b)

\* ConnectionTracker::untrack: erase_first(m_trackedConnections, connection).
ConnectionTracker_untrack(st, stk, k) ==
    LET tracked == st.m_trackedConnections
        hits == {i \in 1..Len(tracked) : Connection_equal(st, stk, tracked[i], k)}
    IN  IF hits = {}
        THEN st
        ELSE LET i == CHOOSE h \in hits : \A g \in hits : h <= g
             IN  [st EXCEPT !.m_trackedConnections =
                                SubSeq(tracked, 1, i - 1) \o SubSeq(tracked, i + 1, Len(tracked))]

\* PtrTracker::untrack forwards to ConnectionTracker::untrack;
\* WeakPtrTracker::untrack of an object that is no tracker does nothing.
TrackerInterface_untrack(st, stk, t, k) ==
    IF t = "T" THEN ConnectionTracker_untrack(st, stk, k) ELSE st

\* for_each(m_trackers, detacher)
RECURSIVE Detach(_, _, _, _)
Detach(st, stk, trackers, k) ==
    IF trackers = <<>>
    THEN st
    ELSE Detach(TrackerInterface_untrack(st, stk, Head(trackers), k), stk, Tail(trackers), k)

SlotConcept_disconnect(st, stk, k) ==
    IF ~st.m_isConnected[k]
    THEN st
    ELSE LET st1 == [st EXCEPT !.m_isConnected[k] = FALSE]
             st2 == Detach(st1, stk, st1.m_trackers[k], k)
         IN  [st2 EXCEPT !.m_trackers[k] = <<>>]

Connection_disconnect(st, stk, k) ==
    IF ~SlotAlive(st, stk, k) THEN st ELSE SlotConcept_disconnect(st, stk, k)

ConnectionTracker_track(tracked, k) == emplace_back(tracked, k)

\* Faulty variant: only the last tracked connection is disconnected.
DisconnectLastOnly(st, stk) ==
    IF st.m_trackedConnections = <<>>
    THEN st
    ELSE LET connection == st.m_trackedConnections[Len(st.m_trackedConnections)]
             st1 == [st EXCEPT !.m_trackedConnections = pop_back(@)]
         IN  Connection_disconnect(st1, stk, connection)

RECURSIVE ConnectionTracker_disconnectTrackedConnections(_, _)
ConnectionTracker_disconnectTrackedConnections(st, stk) ==
    IF st.m_trackedConnections = <<>>
    THEN st
    ELSE LET connection == st.m_trackedConnections[Len(st.m_trackedConnections)]
             st1 == [st EXCEPT !.m_trackedConnections = pop_back(@)]
         IN  ConnectionTracker_disconnectTrackedConnections(
                 Connection_disconnect(st1, stk, connection), stk)

\* The `disconnect` of SignalConcept (include/comp/concept/signal_concept_impl.hpp).
SignalConcept_disconnect(st, stk, s, k) ==
    IF ~SlotAlive(st, stk, k)
    THEN st
    ELSE IF ~Contains(st.m_slots[s], k)
    THEN st
    ELSE SlotConcept_disconnect([st EXCEPT !.m_slots[s] = erase(@, k)], stk, k)

SignalConcept_addSlot(slots, s, k) == [slots EXCEPT ![s] = Append(@, k)]

ConceptHandleValid(k) == Connection_bool(ConceptState, stack, k)

\* The validity a handle reports, in either revision.
HandleValid(c) == IF variant = "impl" THEN ImplHandleValid(c) ELSE ConceptHandleValid(c)

----------------------------------------------------------------------------
\* Revision "concept": the operations.

\* connect(function)
Concept_connect(s) ==
    /\ variant = "concept" /\ Call
    /\ sigAlive[s]
    /\ nextId <= MaxConn
    /\ m_slots' = SignalConcept_addSlot(m_slots, s, nextId)
    /\ m_isConnected' = [m_isConnected EXCEPT ![nextId] = TRUE]
    /\ owner' = [owner EXCEPT ![nextId] = s]
    /\ nextId' = nextId + 1
    /\ connectedInEmit' = IF Emitting(s) THEN connectedInEmit \cup {nextId}
                                          ELSE connectedInEmit
    /\ ops' = ops + 1
    /\ lastCall' = NoCall
    /\ UNCHANGED <<variant, propVars, threadVars, lifeVars, m_isBlocked, m_emitGuard, stack, slotLock, exc, alive, owned, implVars, m_trackers, m_trackedConnections, disconnected>>

\* connection.bind(tracker), SlotInterface::bind: the tracker must be alive
\* and the connection valid.
Connection_bind(k, t) ==
    /\ variant = "concept" /\ Call
    /\ k \in Created
    /\ ConceptHandleValid(k)
    /\ alive[t]
    /\ Len(m_trackers[k]) < MaxBind
    /\ ~slotLock[k]
    /\ m_trackedConnections' =
           IF t = "T" THEN ConnectionTracker_track(m_trackedConnections, k)
                      ELSE m_trackedConnections
    /\ m_trackers' = [m_trackers EXCEPT ![k] = Append(@, t)]
    /\ ops' = ops + 1
    /\ lastCall' = NoCall
    /\ UNCHANGED <<variant, propVars, threadVars, lifeVars, m_isBlocked, m_emitGuard, nextId, owner, stack, slotLock, exc,
                   alive, owned, implVars, m_slots, m_isConnected, history>>

\* connection.disconnect()
Concept_handle_disconnect(k) ==
    /\ variant = "concept" /\ Call
    /\ k \in Created
    /\ ~slotLock[k]
    /\ SetConcept(Connection_disconnect(ConceptState, stack, k))
    /\ disconnected' = disconnected \cup {k}
    /\ ops' = ops + 1
    /\ lastCall' = NoCall
    /\ UNCHANGED <<variant, propVars, threadVars, lifeVars, m_isBlocked, m_emitGuard, nextId, owner, stack, slotLock, exc,
                   alive, owned, implVars, connectedInEmit>>

\* signal.disconnect(connection)
Concept_signal_disconnect(s, k) ==
    /\ variant = "concept" /\ Call
    /\ sigAlive[s]
    /\ k \in Created
    /\ ~slotLock[k]
    /\ SetConcept(SignalConcept_disconnect(ConceptState, stack, s, k))
    /\ ops' = ops + 1
    /\ lastCall' = NoCall
    /\ UNCHANGED <<variant, propVars, threadVars, lifeVars, m_isBlocked, m_emitGuard, nextId, owner, stack, slotLock, exc,
                   alive, owned, implVars, history>>

\* tracker.disconnectTrackedConnections(), then ~ConnectionTracker when the
\* tracker is destroyed.
ConnectionTracker_clear(destroy) ==
    /\ variant = "concept" /\ Call
    /\ alive["T"]
    /\ \A k \in Range(m_trackedConnections) : ~slotLock[k]
    /\ SetConcept(ConnectionTracker_disconnectTrackedConnections(ConceptState, stack))
    /\ alive' = [alive EXCEPT !["T"] = ~destroy]
    /\ ops' = ops + 1
    /\ lastCall' = Cleared({k \in Created : Contains(m_trackers[k], "T")})
    /\ UNCHANGED <<variant, propVars, threadVars, lifeVars, m_isBlocked, m_emitGuard, nextId, owner, stack, slotLock, exc,
                   owned, implVars, history>>

\* The program drops the last shared_ptr to the object "W".
DropShared ==
    /\ variant = "concept" /\ Call
    /\ alive["W"]
    /\ alive' = [alive EXCEPT !["W"] = FALSE]
    /\ ops' = ops + 1
    /\ lastCall' = NoCall
    /\ UNCHANGED <<variant, propVars, threadVars, lifeVars, m_isBlocked, m_emitGuard, nextId, owner, stack, slotLock, exc,
                   owned, implVars, conceptVars, history>>

\* SignalConcept::operator() up to the dispatch loop.
Concept_emit(s) ==
    /\ variant = "concept" /\ Call
    /\ sigAlive[s]
    /\ IF m_isBlocked[s] \/ FlagGuard_isLocked(m_emitGuard, s)
       THEN /\ lastCall' = Returned("suppressed", s, 0, NoFrame)
            /\ UNCHANGED <<m_emitGuard, stack, m_slots>>
       ELSE /\ m_emitGuard' = lock_guard_ctor(m_emitGuard, s)
            /\ LET cleaned == SelectSeq(m_slots[s],
                                  LAMBDA k : SlotConcept_isConnected(ConceptState, k))
               IN  /\ m_slots' = [m_slots EXCEPT ![s] = cleaned]
                   /\ stack' = Append(stack, [Frame(s, cleaned,
                                   {k \in Created : owner[k] = s /\ Connected(k)}, nextId)
                                       EXCEPT !.owed = Owed(s)])
            /\ lastCall' = NoCall
    /\ ops' = ops + 1
    /\ UNCHANGED <<variant, propVars, threadVars, lifeVars, m_isBlocked, nextId, owner, slotLock, exc, alive, owned,
                   implVars, m_isConnected, m_trackers, m_trackedConnections, history>>

\* Faulty variant: the loop has no `break`, it goes on after the collector
\* has answered false.
Concept_emit_loop_noBreak ==
    /\ variant = "concept" /\ InLoop
    /\ Top.idx < Len(Top.slots)
    /\ LET f == Top
           n == Len(stack)
           k == Current(Top)
           locked == lock_guard_ctor(slotLock, k)
       IN  /\ ~slotLock[k]
           /\ IF ~SlotConcept_isConnected(ConceptState, k)
              THEN /\ stack' = [stack EXCEPT ![n] = [f EXCEPT !.idx = @ + 1,
                                   !.turns = Append(@, Turn(k, FALSE, FALSE, FALSE))]]
                   /\ slotLock' = lock_guard_dtor(locked, k)
              ELSE /\ stack' = [stack EXCEPT ![n] = [f EXCEPT !.active = TRUE,
                                   !.turns = Append(@, Turn(k, TRUE, TRUE, FALSE))]]
                   /\ slotLock' = relock_guard_ctor(locked, k)
    /\ lastCall' = NoCall
    /\ UNCHANGED <<variant, propVars, threadVars, lifeVars, m_isBlocked, m_emitGuard, nextId, owner, exc, ops,
                   alive, owned, implVars, conceptVars, history>>

\* One turn of the dispatch loop of SignalConcept::operator().
Concept_emit_loop ==
    /\ variant = "concept" /\ InLoop
    /\ ~Top.stop
    /\ Top.idx < Len(Top.slots)
    /\ LET f == Top
           n == Len(stack)
           k == Current(Top)
           locked == lock_guard_ctor(slotLock, k)
       IN  /\ ~slotLock[k]
           /\ IF ~SlotConcept_isConnected(ConceptState, k)
              THEN \* continue
                   /\ stack' = [stack EXCEPT ![n] = [f EXCEPT !.idx = @ + 1,
                                   !.turns = Append(@, Turn(k, FALSE, FALSE, FALSE))]]
                   /\ slotLock' = lock_guard_dtor(locked, k)
              ELSE \* the slot lock is released; collect() activates the slot
                   /\ stack' = [stack EXCEPT ![n] = [f EXCEPT !.active = TRUE,
                                   !.turns = Append(@, Turn(k, TRUE, TRUE, FALSE))]]
                   /\ slotLock' = relock_guard_ctor(locked, k)
    /\ lastCall' = NoCall
    /\ UNCHANGED <<variant, propVars, threadVars, lifeVars, m_isBlocked, m_emitGuard, nextId, owner, exc, ops,
                   alive, owned, implVars, conceptVars, history>>

\* The callable returns and the collector handles the result; the collector
\* answers whether the dispatch goes on.
Concept_slot_return(goOn) ==
    /\ variant = "concept" /\ SlotReturns
    /\ LET f == Top
           n == Len(stack)
           k == Current(Top)
       IN  /\ stack' = [stack EXCEPT ![n] = [f EXCEPT !.idx = @ + 1, !.active = FALSE,
                                                     !.result = @ + 1, !.stop = ~goOn,
                                                     !.fwd = "no",
                                                     !.turns[Len(f.turns)].forward = f.fwd]]
           /\ slotLock' = lock_guard_dtor(relock_guard_dtor(slotLock, k), k)
    /\ lastCall' = NoCall
    /\ UNCHANGED <<variant, propVars, threadVars, lifeVars, m_isBlocked, m_emitGuard, nextId, owner, exc, ops,
                   alive, owned, implVars, conceptVars, history>>

\* The callable fails with bad_slot or bad_weak_ptr: the loop catches it,
\* disconnects the slot and goes on.
Concept_slot_bad ==
    /\ variant = "concept" /\ UserCode /\ stack # <<>>
    /\ LET f == Top
           n == Len(stack)
           k == Current(Top)
       IN  /\ stack' = [stack EXCEPT ![n] = [f EXCEPT !.idx = @ + 1, !.active = FALSE,
                                                     !.turns[Len(f.turns)].failed = TRUE]]
           /\ slotLock' = lock_guard_dtor(relock_guard_dtor(relock_guard_ctor(
                              relock_guard_dtor(slotLock, k), k), k), k)
           /\ SetConcept(SignalConcept_disconnect(ConceptState, stack, f.sig, k))
    /\ lastCall' = NoCall
    /\ UNCHANGED <<variant, propVars, threadVars, lifeVars, m_isBlocked, m_emitGuard, nextId, owner, exc, ops,
                   alive, owned, implVars, history>>

----------------------------------------------------------------------------
\* The lifetime of signals: connections between signals, the destruction of
\* a signal, and member signals, which live in a host object.

\* SignalConcept::disconnect() (src/comp_lib.cpp): every connection of the
\* signal is removed, last one first.
RECURSIVE SignalConcept_disconnectAll(_, _)
SignalConcept_disconnectAll(st, s) ==
    IF st.m_connections[s] = <<>>
    THEN st
    ELSE SignalConcept_disconnectAll(
             SignalConcept_removeConnection(st, s, st.m_connections[s][Len(st.m_connections[s])]), s)

\* Faulty variant: the destructor leaves the connections of the signal alone.
dtor_keepsConnections(st, s, observers) == Notifier_dtor(st, observers)

\* Faulty variant: the destroyed signal does not notify the connections that
\* watch it.
dtor_noNotify(st, s, observers) == SignalConcept_disconnectAll(st, s)

\* ~SignalConcept of revision "impl", followed by ~Notifier, which tells the
\* connections that forward to this signal.
SignalConcept_dtor(st, s, observers) ==
    Notifier_dtor(SignalConcept_disconnectAll(st, s), observers)

\* ~SignalConcept of revision "concept": every slot is disconnected, last one
\* first.
RECURSIVE Concept_SignalConcept_dtor(_, _, _)
Concept_SignalConcept_dtor(st, stk, s) ==
    IF st.m_slots[s] = <<>>
    THEN st
    ELSE Concept_SignalConcept_dtor(
             SignalConcept_disconnect(st, stk, s, st.m_slots[s][Len(st.m_slots[s])]), stk, s)

\* ~ConnectionTracker of a signal: disconnectTrackedConnections over the
\* connections that forward to it.
RECURSIVE Signal_disconnectTrackedConnections(_, _, _)
Signal_disconnectTrackedConnections(st, stk, tracked) ==
    IF tracked = <<>>
    THEN st
    ELSE Signal_disconnectTrackedConnections(
             Connection_disconnect(st, stk, tracked[Len(tracked)]), stk, pop_back(tracked))

\* The member signal of the host object.
MemberSignal == CHOOSE s \in Signals : m_host[s] # "none"

\* No emission in stk holds a shared_ptr to the host.
Unpinned(stk) == \A i \in 1..Len(stk) : ~stk[i].pins

\* Faulty variant: lockedHost is not taken into account, the host dies
\* when the program releases it.
HostDying_noPin(f, stk) == f.pins /\ ~hostOwned /\ sigAlive[MemberSignal]

\* Frame f is left and releases lockedHost (stk is the stack without it): the
\* host dies when neither the program nor another emission holds it.
HostDying(f, stk) == f.pins /\ ~hostOwned /\ Unpinned(stk)

\* ~Host destroys the member signal.
Host_dtor(st, dying) ==
    IF dying
    THEN SignalConcept_dtor(st, MemberSignal, sig_observers[MemberSignal])
    ELSE st

AliveAfterHost(dying) ==
    IF dying THEN [sigAlive EXCEPT ![MemberSignal] = FALSE] ELSE sigAlive

ObserversAfterHost(dying) ==
    IF dying THEN [sig_observers EXCEPT ![MemberSignal] = <<>>] ELSE sig_observers

\* ~SignalConcept begins with setBlocked(true).
BlockedAfterHost(dying) ==
    IF dying THEN [m_isBlocked EXCEPT ![MemberSignal] = TRUE] ELSE m_isBlocked

\* connect(receiver signal) of revision "impl": a SignalConnection that
\* watches the receiver.
Impl_connect_signal(s, r) ==
    /\ variant = "impl" /\ Call
    /\ sigAlive[s] /\ sigAlive[r]
    /\ nextId <= MaxConn
    /\ m_connections' = SignalConcept_addConnection(m_connections, s, nextId)
    /\ m_signal' = [m_signal EXCEPT ![nextId] = s]
    /\ m_receiver' = [m_receiver EXCEPT ![nextId] = r]
    /\ sig_observers' = [sig_observers EXCEPT ![r] = emplace_back(@, nextId)]
    /\ owner' = [owner EXCEPT ![nextId] = s]
    /\ nextId' = nextId + 1
    /\ connectedInEmit' = IF Emitting(s) THEN connectedInEmit \cup {nextId}
                                          ELSE connectedInEmit
    /\ lastCall' = NoCall
    /\ ops' = ops + 1
    /\ UNCHANGED <<variant, propVars, threadVars, m_isBlocked, m_emitGuard, stack, slotLock, exc, alive, owned,
                   m_target, m_observers, conceptVars, sigAlive, m_host, hostOwned,
                   sig_tracked, disconnected>>

\* connect(receiver signal) of revision "concept": a SignalSlot that the
\* receiver tracks.
Concept_connect_signal(s, r) ==
    /\ variant = "concept" /\ Call
    /\ sigAlive[s] /\ sigAlive[r]
    /\ nextId <= MaxConn
    /\ m_receiver' = [m_receiver EXCEPT ![nextId] = r]
    /\ sig_tracked' = [sig_tracked EXCEPT ![r] = ConnectionTracker_track(@, nextId)]
    /\ m_slots' = SignalConcept_addSlot(m_slots, s, nextId)
    /\ m_isConnected' = [m_isConnected EXCEPT ![nextId] = TRUE]
    /\ owner' = [owner EXCEPT ![nextId] = s]
    /\ nextId' = nextId + 1
    /\ connectedInEmit' = IF Emitting(s) THEN connectedInEmit \cup {nextId}
                                          ELSE connectedInEmit
    /\ lastCall' = NoCall
    /\ ops' = ops + 1
    /\ UNCHANGED <<variant, propVars, threadVars, m_isBlocked, m_emitGuard, stack, slotLock, exc, alive, owned,
                   implVars, m_trackers, m_trackedConnections, sigAlive, m_host, hostOwned,
                   sig_observers, disconnected>>

\* SignalConnection::activateOverride: m_receiver->emit(collector, args...).
\* The call is SignalConceptImpl::emit, which takes no lockedHost.  A
\* receiver that no longer exists makes the call undefined.
Impl_forward ==
    /\ variant = "impl" /\ exc = "none" /\ stack # <<>>
    /\ Forwarding(Top) /\ Top.fwd = "no"
    /\ LET n == Len(stack)
           r == m_receiver[Current(Top)]
       IN  IF ~sigAlive[r]
           THEN \E outcome \in {"ok", "abort"} :
                    /\ exc' = IF outcome = "abort" THEN "abort" ELSE exc
                    /\ stack' = [stack EXCEPT ![n].fwd = "dangling"]
                    /\ UNCHANGED <<m_emitGuard, m_connections>>
           ELSE IF m_isBlocked[r] \/ FlagGuard_isLocked(m_emitGuard, r)
           THEN /\ stack' = [stack EXCEPT ![n].fwd =
                                 IF m_isBlocked[r] THEN "blocked" ELSE "emitting"]
                /\ UNCHANGED <<exc, m_emitGuard, m_connections>>
           ELSE /\ m_emitGuard' = lock_guard_ctor(m_emitGuard, r)
                /\ LET cleaned == SelectSeq(m_connections[r], LAMBDA c : ImplHandleValid(c))
                   IN  /\ m_connections' = [m_connections EXCEPT ![r] = cleaned]
                       /\ stack' = Append([stack EXCEPT ![n].fwd = "ran"],
                                       Frame(r, cleaned,
                                           {c \in Created : owner[c] = r /\ Connected(c)}, nextId))
                /\ UNCHANGED exc
    /\ lastCall' = NoCall
    /\ UNCHANGED <<variant, propVars, threadVars, lifeVars, m_isBlocked, nextId, owner, slotLock, ops, alive, owned,
                   m_signal, m_target, m_observers, conceptVars, history>>

\* SignalSlot::activateOverride: invoke(*m_receiver, args...).
Concept_forward ==
    /\ variant = "concept" /\ exc = "none" /\ stack # <<>>
    /\ Forwarding(Top) /\ Top.fwd = "no"
    /\ LET n == Len(stack)
           r == m_receiver[Current(Top)]
       IN  IF ~sigAlive[r]
           THEN \E outcome \in {"ok", "abort"} :
                    /\ exc' = IF outcome = "abort" THEN "abort" ELSE exc
                    /\ stack' = [stack EXCEPT ![n].fwd = "dangling"]
                    /\ UNCHANGED <<m_emitGuard, m_slots>>
           ELSE IF m_isBlocked[r] \/ FlagGuard_isLocked(m_emitGuard, r)
           THEN /\ stack' = [stack EXCEPT ![n].fwd =
                                 IF m_isBlocked[r] THEN "blocked" ELSE "emitting"]
                /\ UNCHANGED <<exc, m_emitGuard, m_slots>>
           ELSE /\ m_emitGuard' = lock_guard_ctor(m_emitGuard, r)
                /\ LET cleaned == SelectSeq(m_slots[r],
                                      LAMBDA k : SlotConcept_isConnected(ConceptState, k))
                   IN  /\ m_slots' = [m_slots EXCEPT ![r] = cleaned]
                       /\ stack' = Append([stack EXCEPT ![n].fwd = "ran"],
                                       Frame(r, cleaned,
                                           {k \in Created : owner[k] = r /\ Connected(k)}, nextId))
                /\ UNCHANGED exc
    /\ lastCall' = NoCall
    /\ UNCHANGED <<variant, propVars, threadVars, lifeVars, m_isBlocked, nextId, owner, slotLock, ops, alive, owned,
                   implVars, m_isConnected, m_trackers, m_trackedConnections, history>>

\* The program destroys a standalone signal of revision "impl".
Impl_destroy(s) ==
    /\ variant = "impl" /\ Call
    /\ sigAlive[s] /\ m_host[s] = "none"
    /\ SetImpl(SignalConcept_dtor(ImplState, s, sig_observers[s]))
    /\ m_isBlocked' = [m_isBlocked EXCEPT ![s] = TRUE]
    /\ sigAlive' = [sigAlive EXCEPT ![s] = FALSE]
    /\ sig_observers' = [sig_observers EXCEPT ![s] = <<>>]
    /\ lastCall' = NoCall
    /\ ops' = ops + 1
    /\ UNCHANGED <<variant, propVars, threadVars, m_emitGuard, nextId, owner, stack, slotLock, exc, alive, owned,
                   m_target, m_observers, conceptVars, m_host, hostOwned, m_receiver,
                   sig_tracked, history>>

\* The program destroys a signal of revision "concept": ~SignalConcept, then
\* ~ConnectionTracker.  Each disconnect takes the lock of its slot.
Concept_destroy(s) ==
    /\ variant = "concept" /\ Call
    /\ sigAlive[s]
    /\ \A k \in Range(m_slots[s]) \cup Range(sig_tracked[s]) : ~slotLock[k]
    /\ SetConcept(Signal_disconnectTrackedConnections(
                      Concept_SignalConcept_dtor(ConceptState, stack, s), stack, sig_tracked[s]))
    /\ sigAlive' = [sigAlive EXCEPT ![s] = FALSE]
    /\ sig_tracked' = [sig_tracked EXCEPT ![s] = <<>>]
    /\ lastCall' = NoCall
    /\ ops' = ops + 1
    /\ UNCHANGED <<variant, propVars, threadVars, m_isBlocked, m_emitGuard, nextId, owner, stack, slotLock, exc,
                   alive, owned, implVars, m_host, hostOwned, m_receiver, sig_observers,
                   history>>

\* The program drops its shared_ptr to the host of the member signal.  The
\* host dies at once unless an emission holds it; its destructor may emit the
\* member signal, and then shared_from_this() finds no owner and emit is left
\* by bad_weak_ptr before it dispatches.
DropHost(emits) ==
    /\ variant = "impl" /\ Call
    /\ hostOwned
    /\ hostOwned' = FALSE
    /\ LET dying == Unpinned(stack)
       IN  /\ SetImpl(Host_dtor(ImplState, dying))
           /\ sigAlive' = AliveAfterHost(dying)
           /\ sig_observers' = ObserversAfterHost(dying)
           /\ m_isBlocked' = BlockedAfterHost(dying)
           /\ lastCall' = IF dying /\ emits
                          THEN Returned("expired", MemberSignal, 0, NoFrame)
                          ELSE NoCall
    /\ ops' = ops + 1
    /\ UNCHANGED <<variant, propVars, threadVars, m_emitGuard, nextId, owner, stack, slotLock, exc, alive, owned,
                   m_target, m_observers, conceptVars, m_host, m_receiver, sig_tracked,
                   history>>

----------------------------------------------------------------------------
\* Operations the two revisions share.

\* Faulty variant: blocking also empties the containers of the signal.
setBlocked_dropsSlots(s, b) ==
    /\ Call
    /\ sigAlive[s]
    /\ m_isBlocked' = [m_isBlocked EXCEPT ![s] = b]
    /\ m_connections' = [m_connections EXCEPT ![s] = IF b THEN <<>> ELSE @]
    /\ m_slots' = [m_slots EXCEPT ![s] = IF b THEN <<>> ELSE @]
    /\ lastCall' = NoCall
    /\ UNCHANGED <<variant, propVars, threadVars, lifeVars, m_emitGuard, nextId, owner, stack, slotLock, exc, alive, owned,
                   m_signal, m_target, m_observers, m_isConnected, m_trackers,
                   m_trackedConnections, history>>
    /\ ops' = ops + 1

\* SignalConcept::setBlocked
setBlocked(s, b) ==
    /\ Call
    /\ sigAlive[s]
    /\ m_isBlocked' = [m_isBlocked EXCEPT ![s] = b]
    /\ lastCall' = NoCall
    /\ UNCHANGED <<variant, propVars, threadVars, lifeVars, m_emitGuard, nextId, owner, stack, slotLock, exc, alive, owned, implVars, conceptVars, history>>
    /\ ops' = ops + 1

\* The outcomes of releasing the re-entry guard of signal s when emit
\* returns or is unwound.  The guard refers to m_emitGuard, a member of the
\* signal: when the signal was destroyed during the emission, unlock() writes
\* to storage that has been released, which is undefined; the program goes on
\* or is aborted.
GuardOutcomes(s) == IF sigAlive[s] THEN {"ok"} ELSE {"ok", "abort"}

\* The dispatch loop is over (or the collector stopped it): `guard` is
\* destroyed and emit returns; then lockedHost of a member signal is
\* released.
emit_return ==
    /\ InLoop
    /\ IF Top.stop THEN TRUE ELSE Top.idx = Len(Top.slots)
    /\ \E outcome \in GuardOutcomes(Top.sig) :
          IF outcome = "abort"
          THEN /\ exc' = "abort"
               /\ lastCall' = NoCall
               /\ UNCHANGED <<m_isBlocked, m_emitGuard, stack, implVars, sigAlive, sig_observers>>
          ELSE LET stk == Pop(stack)
                   dying == HostDying(Top, stk)
               IN  /\ m_emitGuard' = lock_guard_dtor(m_emitGuard, Top.sig)
                   /\ lastCall' = Returned(IF Top.stop THEN "stopped" ELSE "normal",
                                           Top.sig, Top.result, Top)
                   /\ stack' = stk
                   /\ SetImpl(Host_dtor(ImplState, dying))
                   /\ sigAlive' = AliveAfterHost(dying)
                   /\ sig_observers' = ObserversAfterHost(dying)
                   /\ m_isBlocked' = BlockedAfterHost(dying)
                   /\ UNCHANGED <<exc, m_target, m_observers>>
    /\ UNCHANGED <<variant, propVars, threadVars, nextId, owner, slotLock, ops, alive, owned, conceptVars,
                   m_host, hostOwned, m_receiver, sig_tracked, history>>

\* The callable exits by an exception that is neither bad_slot nor
\* bad_weak_ptr (thrown by it, or passing through it from an inner emit):
\* the guards of the turn and of the emission are destroyed, lockedHost is
\* released, and the exception reaches the caller of emit.
emit_unwind ==
    /\ exc # "abort"
    /\ stack # <<>> /\ Top.active
    /\ IF exc = "none" THEN ~Forwarding(Top) ELSE TRUE
    /\ \E outcome \in GuardOutcomes(Top.sig) :
          IF outcome = "abort"
          THEN /\ exc' = "abort"
               /\ lastCall' = NoCall
               /\ UNCHANGED <<m_isBlocked, m_emitGuard, stack, slotLock, alive, implVars,
                              sigAlive, sig_observers>>
          ELSE LET c == Current(Top)
                   stk == Pop(stack)
                   dying == HostDying(Top, stk)
               IN  /\ stack' = stk
                   /\ slotLock' = lock_guard_dtor(relock_guard_dtor(slotLock, c), c)
                   /\ m_emitGuard' = lock_guard_dtor(m_emitGuard, Top.sig)
                   /\ lastCall' = Returned("exception", Top.sig, Top.result, Top)
                   /\ SetImpl(Host_dtor(ReleaseReceiver(ImplState, stk, c), dying))
                   /\ alive' = AliveAfterRelease(stk, c)
                   /\ m_observers' = ObserversAfterRelease(stk, c)
                   /\ sigAlive' = AliveAfterHost(dying)
                   /\ sig_observers' = ObserversAfterHost(dying)
                   /\ m_isBlocked' = BlockedAfterHost(dying)
                   /\ exc' = "user"
                   /\ UNCHANGED m_target
    /\ UNCHANGED <<variant, propVars, threadVars, nextId, owner, ops, owned, conceptVars,
                   m_host, hostOwned, m_receiver, sig_tracked, history>>

\* User code catches the exception that came out of emit.
catch ==
    /\ exc = "user"
    /\ IF stack = <<>> THEN TRUE ELSE Top.active /\ ~Forwarding(Top)
    /\ exc' = "none"
    /\ lastCall' = NoCall
    /\ UNCHANGED <<variant, propVars, threadVars, lifeVars, m_isBlocked, m_emitGuard, nextId, owner, stack, slotLock,
                   ops, alive, owned, implVars, conceptVars, history>>

----------------------------------------------------------------------------

\* What a call on a property reports: the operation, the property, the
\* provider it concerned, how often the changed signal of each property fired
\* while it ran, and whether it ran into undefined behaviour.  `observed` is
\* the value a read of each property returned when its changed signal fired
\* last (T() before the first firing), `repeated` the properties whose
\* changed signal fired in the call for the value observed before, `moves`
\* the changes of state (from, to) that setState made in the call, `removals`
\* the providers whose removeSelf the call made, each with whether the
\* provider was attached at that time.
NoPropCall ==
    [op |-> "none", prop |-> NoProp, prov |-> NULL, value |-> 0,
     fired |-> [p \in Props |-> 0], ub |-> FALSE, relock |-> "no", reads |-> 0,
     reentered |-> FALSE, observed |-> [p \in Props |-> 0], repeated |-> {},
     moves |-> {}, removals |-> <<>>]

\* The program has no property.
\* The threads of the two-thread programs: X is 1, Y is 2.
Threads == {1, 2}

\* No call of disconnect or connect is in progress.  `pending` tells that a
\* core::Slot::disconnect further out waits, behind its relock_guard, for the
\* disconnect of the signal to return.
NoThreadCall == [op |-> "none", at |-> "idle", slot |-> NULL, pending |-> FALSE]

\* A thread outside the library.  `at` is its place in SignalConcept::operator(),
\* slots and idx are the snapshot and the loop index of its emission, ran
\* records the callables the emission has invoked, call is the disconnect or
\* connect the thread is inside, calls counts the calls it has begun.
IdleThread ==
    [at |-> "idle", slots |-> <<>>, idx |-> 0, ran |-> <<>>, call |-> NoThreadCall,
     calls |-> 0]

\* No binding is being evaluated.  `stack` holds the BindingScope objects that
\* are alive, outermost first; `log` tells what the evaluation in progress has
\* done and `made` which binding's expression has read which property.
NoEvaluation ==
    [binding |-> NULL, at |-> "idle", read |-> {}, stack |-> <<>>, log |-> <<>>, made |-> {}]

\* One thread runs the program; no lock is held.
NoThreads ==
    /\ BindingScope_current = NULL
    /\ evaluation = NoEvaluation
    /\ threads = [t \in Threads |-> IdleThread]
    /\ sigHolder = NULL
    /\ slotHolder = [c \in ConnIds |-> NULL]
    /\ guardFault = {}

NoProperties ==
    /\ bindingClass = "none"
    /\ propAlive = [p \in Props |-> FALSE]
    /\ m_vp = [p \in Props |-> <<>>]
    /\ m_active = [p \in Props |-> NULL]
    /\ m_connectedPropertyValues = [p \in Props |-> <<>>]
    /\ changed = [p \in Props |-> <<>>]
    /\ m_state = [v \in ProvIds |-> "Detached"]
    /\ pv_target = [v \in ProvIds |-> NoProp]
    /\ writeBehavior = [v \in ProvIds |-> "Discard"]
    /\ m_data = [v \in ProvIds |-> 0]
    /\ m_expression = [v \in ProvIds |-> NoProp]
    /\ m_sourceProperties = [v \in ProvIds |-> <<>>]
    /\ nextProv = 1
    /\ propCall = NoPropCall
    /\ pops = 0

\* The signal the c-th initial connection is made on, and the connections a
\* signal holds after the first n of them.
InitSignal(c) == IF c < InitSlots THEN 1 ELSE 2

InitSlotsOf(s, n) == SelectSeq([c \in 1..n |-> c], LAMBDA c : InitSignal(c) = s)

Init ==
    /\ variant \in {"impl", "concept"}
    /\ nextId \in {1, InitSlots + 1}
    /\ m_isBlocked = [s \in Signals |-> FALSE]
    /\ m_emitGuard = [s \in Signals |-> FALSE]
    /\ owner = [c \in ConnIds |-> IF c < nextId THEN InitSignal(c) ELSE NULL]
    /\ stack = <<>>
    /\ slotLock = [c \in ConnIds |-> FALSE]
    /\ exc = "none"
    /\ lastCall = NoCall
    /\ ops = 0
    /\ alive = [o \in Objects |-> TRUE]
    /\ owned = [r \in Receivers |-> TRUE]
    /\ m_connections = [s \in Signals |->
           IF variant = "impl" THEN InitSlotsOf(s, nextId - 1) ELSE <<>>]
    /\ m_signal = [c \in ConnIds |-> IF variant = "impl" /\ c < nextId THEN InitSignal(c) ELSE NULL]
    /\ m_target = [c \in ConnIds |-> "none"]
    /\ m_observers = <<>>
    /\ m_slots = [s \in Signals |->
           IF variant = "concept" THEN InitSlotsOf(s, nextId - 1) ELSE <<>>]
    /\ m_isConnected = [c \in ConnIds |-> variant = "concept" /\ c < nextId]
    /\ m_trackers = [c \in ConnIds |-> <<>>]
    /\ m_trackedConnections = <<>>
    /\ sigAlive = [s \in Signals |-> TRUE]
    /\ m_host = [s \in Signals |-> "none"]
    /\ hostOwned = FALSE
    /\ m_receiver = [c \in ConnIds |-> NULL]
    /\ sig_observers = [s \in Signals |-> <<>>]
    /\ sig_tracked = [s \in Signals |-> <<>>]
    /\ NoProperties
    /\ NoThreads
    /\ disconnected = {}
    /\ connectedInEmit = {}

Next ==
    \/ \E s \in Signals : Impl_connect(s)
    \/ \E s \in Signals, r \in Receivers : Impl_connect_method(s, r)
    \/ \E c \in ConnIds : Impl_handle_disconnect(c)
    \/ \E s \in Signals, c \in ConnIds : Impl_signal_disconnect(s, c)
    \/ \E r \in Receivers : DropReceiver(r)
    \/ \E s \in Signals : Impl_emit(s)
    \/ Impl_emit_loop
    \/ Impl_slot_return
    \/ Impl_slot_bad
    \/ \E s \in Signals : Concept_connect(s)
    \/ \E k \in ConnIds, t \in Trackers : Connection_bind(k, t)
    \/ \E k \in ConnIds : Concept_handle_disconnect(k)
    \/ \E s \in Signals, k \in ConnIds : Concept_signal_disconnect(s, k)
    \/ \E destroy \in BOOLEAN : ConnectionTracker_clear(destroy)
    \/ DropShared
    \/ \E s \in Signals : Concept_emit(s)
    \/ Concept_emit_loop
    \/ \E goOn \in BOOLEAN : Concept_slot_return(goOn)
    \/ Concept_slot_bad
    \/ \E s \in Signals, b \in BOOLEAN : setBlocked(s, b)
    \/ emit_return
    \/ emit_unwind
    \/ catch

Spec == Init /\ [][Next]_vars

\* Programs that connect signals to signals, destroy signals, and may keep
\* signal 1 as the member signal of a host object held by shared_ptr.
LifeInit ==
    /\ variant \in {"impl", "concept"}
    /\ nextId \in {1, InitSlots + 1}
    /\ m_isBlocked = [s \in Signals |-> FALSE]
    /\ m_emitGuard = [s \in Signals |-> FALSE]
    /\ owner = [c \in ConnIds |-> IF c < nextId THEN InitSignal(c) ELSE NULL]
    /\ stack = <<>>
    /\ slotLock = [c \in ConnIds |-> FALSE]
    /\ exc = "none"
    /\ lastCall = NoCall
    /\ ops = 0
    /\ alive = [o \in Objects |-> TRUE]
    /\ owned = [r \in Receivers |-> TRUE]
    /\ m_connections = [s \in Signals |->
           IF variant = "impl" THEN InitSlotsOf(s, nextId - 1) ELSE <<>>]
    /\ m_signal = [c \in ConnIds |-> IF variant = "impl" /\ c < nextId THEN InitSignal(c) ELSE NULL]
    /\ m_target = [c \in ConnIds |-> "none"]
    /\ m_observers = <<>>
    /\ m_slots = [s \in Signals |->
           IF variant = "concept" THEN InitSlotsOf(s, nextId - 1) ELSE <<>>]
    /\ m_isConnected = [c \in ConnIds |-> variant = "concept" /\ c < nextId]
    /\ m_trackers = [c \in ConnIds |-> <<>>]
    /\ m_trackedConnections = <<>>
    /\ sigAlive = [s \in Signals |-> TRUE]
    /\ m_host \in {[s \in Signals |-> "none"]} \cup
                  (IF variant = "impl"
                   THEN {[s \in Signals |-> IF s = 1 THEN "H" ELSE "none"]}
                   ELSE {})
    /\ hostOwned = (m_host[1] = "H")
    /\ m_receiver = [c \in ConnIds |-> NULL]
    /\ sig_observers = [s \in Signals |-> <<>>]
    /\ sig_tracked = [s \in Signals |-> <<>>]
    /\ NoProperties
    /\ NoThreads
    /\ disconnected = {}
    /\ connectedInEmit = {}

LifeNext ==
    \/ \E s \in Signals : Impl_connect(s)
    \/ \E s \in Signals, r \in Signals : Impl_connect_signal(s, r)
    \/ \E c \in ConnIds : Impl_handle_disconnect(c)
    \/ \E s \in Signals : Impl_destroy(s)
    \/ \E emits \in BOOLEAN : DropHost(emits)
    \/ \E s \in Signals : Impl_emit(s)
    \/ Impl_emit_loop
    \/ Impl_forward
    \/ Impl_slot_return
    \/ \E s \in Signals : Concept_connect(s)
    \/ \E s \in Signals, r \in Signals : Concept_connect_signal(s, r)
    \/ \E k \in ConnIds : Concept_handle_disconnect(k)
    \/ \E s \in Signals : Concept_destroy(s)
    \/ \E s \in Signals : Concept_emit(s)
    \/ Concept_emit_loop
    \/ Concept_forward
    \/ \E goOn \in BOOLEAN : Concept_slot_return(goOn)
    \/ \E s \in Signals, b \in BOOLEAN : setBlocked(s, b)
    \/ emit_return
    \/ emit_unwind
    \/ catch

LifeSpec == LifeInit /\ [][LifeNext]_vars

----------------------------------------------------------------------------
\* Properties and their value providers: include/comp/concept/property.hpp,
\* property_concept_impl.hpp, binding.hpp, expression_binding.hpp,
\* include/comp/property.hpp.  A call on a property runs to its end in one
\* step; the slots connected to a changed signal are those the bindings made.

signalVars == <<variant, common, implVars, conceptVars, lifeVars, history>>

PropState ==
    [propAlive |-> propAlive, m_vp |-> m_vp, m_active |-> m_active,
     m_connectedPropertyValues |-> m_connectedPropertyValues, changed |-> changed,
     m_state |-> m_state, pv_target |-> pv_target, writeBehavior |-> writeBehavior,
     m_data |-> m_data, m_expression |-> m_expression,
     m_sourceProperties |-> m_sourceProperties,
     fired |-> [p \in Props |-> 0], ub |-> FALSE,
     heldV |-> {}, heldP |-> {}, onRelock |-> "pass", relock |-> "no", reads |-> 0,
     reentered |-> FALSE, observed |-> propCall.observed, repeated |-> {},
     moves |-> {}, removals |-> <<>>]

\* What becomes of a thread that locks a mutex it already holds.  With
\* COMP_CONFIG_THREAD_ENABLED the mutex is std::mutex and the lock is undefined,
\* in practice a deadlock; without it the mutex is FlagGuard, whose lock()
\* asserts: abort() in a DEBUG build, nothing otherwise.
RelockOutcomes == {"deadlock", "abort", "pass"}

\* The call cannot go on: its thread waits for itself or the process is gone.
Stuck(st) == st.relock \in {"deadlock", "abort"}

\* Tracker::clearTrackables of provider v: every connection it tracks is
\* disconnected, which takes it out of its changed signal.
clearTrackables(st, v) ==
    [st EXCEPT !.changed = [q \in Props |-> SelectSeq(st.changed[q], LAMBDA c : c.by # v)]]

\* core::Value::untrackSources
untrackSources(st, v) ==
    [st EXCEPT !.m_connectedPropertyValues =
                   [q \in Props |-> IF Contains(st.m_sourceProperties[v], q)
                                    THEN erase(st.m_connectedPropertyValues[q], v)
                                    ELSE st.m_connectedPropertyValues[q]],
               !.m_sourceProperties[v] = <<>>]

\* core::Value::reset
Value_reset(st, v) == clearTrackables(untrackSources(st, v), v)

\* BindingScope::trackProperty(source) while binding `current` evaluates.
trackProperty(st, current, source) ==
    [st EXCEPT !.changed[source] = Append(@, [to |-> st.pv_target[current], by |-> current]),
               !.m_connectedPropertyValues[source] = Append(@, current),
               !.m_sourceProperties[current] = Append(@, source)]

\* The value PropertyValue::evaluate returns; `evaluating` holds the providers
\* whose m_guardEvaluate is locked.
RECURSIVE PropertyValue_value(_, _, _)
PropertyValue_value(st, v, evaluating) ==
    IF v \in evaluating THEN 0
    ELSE IF st.m_expression[v] = NoProp THEN st.m_data[v]
    ELSE IF st.m_active[st.m_expression[v]] = NULL THEN 0
    ELSE PropertyValue_value(st, st.m_active[st.m_expression[v]], evaluating \cup {v})

\* What PropertyValue::evaluate does to the state: it locks the provider and
\* its property, returns at once when m_guardEvaluate is locked, and else
\* evaluates.  A binding runs its expression inside a BindingScope;
\* BindingConcept resets itself first, ExpressionBinding does not.
RECURSIVE PropertyValue_evaluate(_, _, _, _)
PropertyValue_evaluate(st, v, current, evaluating) ==
    IF Stuck(st)
    THEN st
    ELSE IF (v \in st.heldV \/ st.pv_target[v] \in st.heldP) /\ st.onRelock # "pass"
    THEN [st EXCEPT !.relock = st.onRelock, !.reentered = @ \/ v \in evaluating]
    ELSE LET t == st.pv_target[v]
             locked == [st EXCEPT !.relock = IF v \in st.heldV \/ t \in st.heldP THEN "pass" ELSE @,
                                  !.reentered = @ \/ v \in evaluating,
                                  !.heldV = @ \cup {v}, !.heldP = @ \cup {t}]
             tracked == IF current # NULL
                        THEN trackProperty(locked, current, t)
                        ELSE locked
             scoped == IF bindingClass = "BindingConcept"
                       THEN Value_reset(tracked, v)
                       ELSE tracked
             a == IF st.m_expression[v] = NoProp THEN NULL ELSE scoped.m_active[st.m_expression[v]]
             evaluated == IF v \in evaluating THEN locked
                          ELSE IF st.m_expression[v] = NoProp THEN tracked
                          ELSE IF a = NULL THEN [scoped EXCEPT !.ub = TRUE]
                          ELSE PropertyValue_evaluate(scoped, a, v, evaluating \cup {v})
         IN  [evaluated EXCEPT !.heldV = @ \ {v}, !.heldP = @ \ {t}]

\* SignalConceptImpl::emit on the changed signal of p.  A connection made by
\* a binding forwards to another changed signal; a connection the program made
\* (by = NULL) is a slot that reads the property `to`.  `emitting` holds the
\* signals whose m_emitGuard is locked.
RECURSIVE Changed_emit(_, _, _), Changed_dispatch(_, _, _)
Changed_dispatch(st, conns, emitting) ==
    IF conns = <<>> \/ Stuck(st)
    THEN st
    ELSE IF conns[1].by # NULL
    THEN Changed_dispatch(Changed_emit(st, conns[1].to, emitting), Tail(conns), emitting)
    ELSE IF st.m_active[conns[1].to] = NULL
    THEN [st EXCEPT !.ub = TRUE]
    ELSE Changed_dispatch(
             PropertyValue_evaluate([st EXCEPT !.reads = @ + 1],
                                    st.m_active[conns[1].to], NULL, {}),
             Tail(conns), emitting)

\* Faulty variant: the changed signal forwards to nobody.
Changed_emit_alone(st, p, emitting) == [st EXCEPT !.fired[p] = @ + 1]

Changed_emit(st, p, emitting) ==
    IF p \in emitting \/ Stuck(st)
    THEN st
    ELSE LET now == IF st.m_active[p] = NULL THEN 0
                    ELSE PropertyValue_value(st, st.m_active[p], {})
         IN  Changed_dispatch([st EXCEPT !.fired[p] = @ + 1,
                                         !.repeated = IF now = st.observed[p]
                                                      THEN @ \cup {p} ELSE @,
                                         !.observed[p] = now],
                              st.changed[p], emitting \cup {p})

\* PropertyValue::setState: the assignment.  What onStateChanged does for the
\* new state is in the operators that call setState.
setState(st, v, state) ==
    [st EXCEPT !.m_state[v] = state, !.moves = @ \cup {<<st.m_state[v], state>>}]

\* PropertyValue::activate
PropertyValue_activate(st, v) ==
    IF st.m_state[v] = "Inactive"
    THEN Changed_emit(PropertyValue_evaluate(setState(st, v, "Active"), v, NULL, {}),
                      st.pv_target[v], {})
    ELSE st

\* PropertyValue::deactivate
PropertyValue_deactivate(st, v) == clearTrackables(setState(st, v, "Inactive"), v)

\* PropertyValue::attach
PropertyValue_attach(st, v, p) ==
    clearTrackables(setState([setState(st, v, "Attaching") EXCEPT !.pv_target[v] = p],
                             v, "Inactive"),
                    v)

\* Faulty variant: detach without the Detaching state.
PropertyValue_detach_direct(st, v) ==
    setState([clearTrackables(st, v) EXCEPT !.pv_target[v] = NoProp], v, "Detached")

\* PropertyValue::detach.  Its assertion, m_state != Detached || m_state !=
\* Detaching, holds in every state.
PropertyValue_detach(st, v) ==
    setState([clearTrackables(setState(st, v, "Detaching"), v) EXCEPT !.pv_target[v] = NoProp],
             v, "Detached")

RECURSIVE DetachAll(_, _)
DetachAll(st, vs) ==
    IF vs = <<>> THEN st ELSE DetachAll(PropertyValue_detach(st, vs[1]), Tail(vs))

\* addPropertyValue without the deactivation of the previous active provider.
addPropertyValue_keepsActive(st, p, v) ==
    LET attached == PropertyValue_attach([st EXCEPT !.m_vp[p] = Append(@, v)], v, p)
    IN  PropertyValue_activate([attached EXCEPT !.m_active[p] = v], v)

\* PropertyConcept::addPropertyValue
addPropertyValue(st, p, v) ==
    LET attached == PropertyValue_attach([st EXCEPT !.m_vp[p] = Append(@, v)], v, p)
        previousActive == attached.m_active[p]
        deactivated == IF previousActive # NULL
                       THEN PropertyValue_deactivate(attached, previousActive)
                       ELSE attached
    IN  PropertyValue_activate([deactivated EXCEPT !.m_active[p] = v], v)

\* PropertyConcept::removePropertyValue.  m_vp.back() of an emptied stack is
\* undefined.
removePropertyValue(st, p, v) ==
    LET choseNewActive == st.m_state[v] = "Active"
        erased == IF Contains(st.m_vp[p], v)
                  THEN [PropertyValue_detach(st, v) EXCEPT !.m_vp[p] = erase(st.m_vp[p], v)]
                  ELSE st
    IN  IF ~choseNewActive
        THEN erased
        ELSE IF erased.m_vp[p] = <<>>
        THEN [erased EXCEPT !.ub = TRUE, !.m_active[p] = NULL]
        ELSE LET last == erased.m_vp[p][Len(erased.m_vp[p])]
             IN  PropertyValue_activate([erased EXCEPT !.m_active[p] = last], last)

\* The providers that erase_if of ZeroSafeContainer hands to VPInvalidator:
\* remove_if moves the kept providers to the front, so a removed provider is
\* still in the tail only if its place is behind the kept ones.
Invalidated(st, vp) ==
    LET kept == SelectSeq(vp, LAMBDA v : st.writeBehavior[v] # "Discard")
    IN  SelectSeq(SubSeq(vp, Len(kept) + 1, Len(vp)), LAMBDA v : st.writeBehavior[v] = "Discard")

\* PropertyConcept::discardValues
discardValues(st, p) ==
    LET vp == st.m_vp[p]
        kept == SelectSeq(vp, LAMBDA v : st.writeBehavior[v] # "Discard")
        active == {v \in Range(vp) : st.writeBehavior[v] = "Discard" /\ st.m_state[v] = "Active"}
        checkNewActive == active # {}
        deactivated == IF checkNewActive
                       THEN PropertyValue_deactivate(st, CHOOSE v \in active : TRUE)
                       ELSE st
        erased == [DetachAll(deactivated, Invalidated(st, vp)) EXCEPT !.m_vp[p] = kept]
    IN  IF ~checkNewActive
        THEN erased
        ELSE IF kept = <<>>
        THEN [erased EXCEPT !.ub = TRUE, !.m_active[p] = NULL]
        ELSE PropertyValue_activate([erased EXCEPT !.m_active[p] = kept[Len(kept)]],
                                    kept[Len(kept)])

\* Faulty variant: set emits changed whether or not the value differs.
Property_set_always(st, p, x) ==
    LET discarded == discardValues(st, p)
        a == discarded.m_active[p]
    IN  IF discarded.ub \/ a = NULL
        THEN [discarded EXCEPT !.ub = TRUE]
        ELSE Changed_emit([discarded EXCEPT !.m_data[a] = x], p, {})

\* Property::operator=(value): discard, then set on the active provider.
Property_set(st, p, x) ==
    LET discarded == discardValues(st, p)
        a == discarded.m_active[p]
    IN  IF discarded.ub \/ a = NULL
        THEN [discarded EXCEPT !.ub = TRUE]
        ELSE IF discarded.m_expression[a] # NoProp \/ discarded.m_data[a] = x
        THEN discarded
        ELSE IF discarded.m_state[a] = "Active"
        THEN LET emitted == Changed_emit([discarded EXCEPT !.m_data[a] = x, !.heldV = @ \cup {a}],
                                         p, {})
             IN  [emitted EXCEPT !.heldV = @ \ {a}]
        ELSE [discarded EXCEPT !.m_data[a] = x]

\* Property::operator DataType: what the read does to the state.
Property_get(st, p) ==
    IF st.m_active[p] = NULL
    THEN [st EXCEPT !.ub = TRUE]
    ELSE PropertyValue_evaluate(st, st.m_active[p], NULL, {})

\* removeSelf of provider v: core::Value, BindingConcept, ExpressionBinding.
\* ExpressionBinding calls through getProperty() without a test; a provider
\* that left a stack without detach still points to its property.
removeSelf(st, v) ==
    IF st.m_expression[v] = NoProp
    THEN untrackSources(st, v)
    ELSE IF bindingClass = "BindingConcept"
    THEN LET untracked == untrackSources(st, v)
         IN  IF untracked.pv_target[v] = NoProp
             THEN untracked
             ELSE IF ~untracked.propAlive[untracked.pv_target[v]]
             THEN [untracked EXCEPT !.ub = TRUE]
             ELSE removePropertyValue(untracked, untracked.pv_target[v], v)
    ELSE IF st.pv_target[v] = NoProp
    THEN [st EXCEPT !.ub = TRUE]
    ELSE IF ~st.propAlive[st.pv_target[v]]
    THEN [st EXCEPT !.ub = TRUE]
    ELSE removePropertyValue(st, st.pv_target[v], v)

\* core::Property::notifyDeleted
RECURSIVE notifyDeleted(_, _)
notifyDeleted(st, q) ==
    IF st.m_connectedPropertyValues[q] = <<>>
    THEN st
    ELSE LET v == st.m_connectedPropertyValues[q][Len(st.m_connectedPropertyValues[q])]
             popped == [st EXCEPT !.m_connectedPropertyValues[q] = pop_back(@),
                                  !.m_sourceProperties[v] = erase(@, q),
                                  !.removals = Append(@, [of |-> v,
                                                          attached |-> st.pv_target[v] # NoProp])]
         IN  notifyDeleted(removeSelf(popped, v), q)

\* ~Property: m_vp is cleared, which detaches every provider; the changed
\* signal is destroyed, which ends the connections from and to it; then
\* core::Property::~Property notifies the providers that read the property.
Property_dtor(st, q) ==
    LET cleared == [DetachAll(st, st.m_vp[q]) EXCEPT !.m_vp[q] = <<>>, !.m_active[q] = NULL]
        silent == [cleared EXCEPT !.changed =
                       [p \in Props |-> IF p = q THEN <<>>
                                        ELSE SelectSeq(cleared.changed[p], LAMBDA c : c.to # q)],
                                  !.propAlive[q] = FALSE]
    IN  notifyDeleted(silent, q)

\* A call on a property may be made: the program has not run into undefined
\* behaviour.
PropCall ==
    /\ ~propCall.ub /\ propCall.relock \in {"no", "pass"} /\ pops < MaxPropOps
    /\ evaluation.at = "idle"

\* The properties and providers are left as st has them.
SetState(st) ==
    /\ propAlive' = st.propAlive
    /\ m_vp' = st.m_vp
    /\ m_active' = st.m_active
    /\ m_connectedPropertyValues' = st.m_connectedPropertyValues
    /\ changed' = st.changed
    /\ m_state' = st.m_state
    /\ pv_target' = st.pv_target
    /\ writeBehavior' = st.writeBehavior
    /\ m_data' = st.m_data
    /\ m_expression' = st.m_expression
    /\ m_sourceProperties' = st.m_sourceProperties

\* The call `op` on property p, about provider v, ends in state st.
SetProp(st, op, p, v, x) ==
    /\ SetState(st)
    /\ propCall' = [op |-> op, prop |-> p, prov |-> v, value |-> x,
                    fired |-> st.fired, ub |-> st.ub, relock |-> st.relock,
                    reads |-> st.reads, reentered |-> st.reentered,
                    observed |-> st.observed, repeated |-> st.repeated,
                    moves |-> st.moves, removals |-> st.removals]
    /\ pops' = pops + 1

\* The state a call starts from, in a build where locking a held mutex ends
\* in onRelock.
Build(onRelock) == [PropState EXCEPT !.onRelock = onRelock]

\* The properties the expression bound to p may read.
Sources(p) == IF p = "P" THEN {"Q"} ELSE IF p = "R" THEN {"P", "Q"} ELSE {}

\* The value a user provider holds when it is made (UserData::m_data).
UserValue == -1

\* property.addPropertyValue(make_shared<UserData>(behavior))
Prop_addPropertyValue(p, behavior) ==
    /\ PropCall /\ propAlive[p]
    /\ nextProv <= MaxProv
    /\ \E o \in RelockOutcomes :
           SetProp(addPropertyValue([Build(o) EXCEPT !.writeBehavior[nextProv] = behavior,
                                                     !.m_data[nextProv] = UserValue],
                                    p, nextProv),
                   "add", p, nextProv, 0)
    /\ nextProv' = nextProv + 1
    /\ UNCHANGED <<signalVars, threadVars, bindingClass>>

\* property.bind(expression), the expression reading property source
Prop_bind(p, source) ==
    /\ PropCall /\ source \in Sources(p)
    /\ propAlive[p] /\ propAlive[source]
    /\ nextProv <= MaxProv
    /\ \E o \in RelockOutcomes :
           SetProp(addPropertyValue([Build(o) EXCEPT !.writeBehavior[nextProv] = "Discard",
                                                     !.m_expression[nextProv] = source],
                                    p, nextProv),
                   "bind", p, nextProv, 0)
    /\ nextProv' = nextProv + 1
    /\ UNCHANGED <<signalVars, threadVars, bindingClass>>

\* property.removePropertyValue(*v), v a provider of the property
Prop_removePropertyValue(p, v) ==
    /\ PropCall /\ propAlive[p]
    /\ Contains(m_vp[p], v)
    /\ \E o \in RelockOutcomes :
           SetProp(removePropertyValue(Build(o), p, v), "remove", p, v, 0)
    /\ UNCHANGED <<signalVars, threadVars, bindingClass, nextProv>>

\* property = x
Prop_set(p, x) ==
    /\ PropCall /\ propAlive[p]
    /\ \E o \in RelockOutcomes : SetProp(Property_set(Build(o), p, x), "set", p, NULL, x)
    /\ UNCHANGED <<signalVars, threadVars, bindingClass, nextProv>>

\* T(property)
Prop_get(p) ==
    /\ PropCall /\ propAlive[p]
    /\ \E o \in RelockOutcomes :
           SetProp(Property_get(Build(o), p), "get", p, NULL,
                   IF m_active[p] = NULL THEN 0 ELSE PropertyValue_value(PropState, m_active[p], {}))
    /\ UNCHANGED <<signalVars, threadVars, bindingClass, nextProv>>

\* The program destroys property q.
Prop_destroy(q) ==
    /\ PropCall /\ propAlive[q]
    /\ \E o \in RelockOutcomes : SetProp(Property_dtor(Build(o), q), "destroy", q, NULL, 0)
    /\ UNCHANGED <<signalVars, threadVars, bindingClass, nextProv>>

\* The provider a property is constructed with.
Floor(p) == IF p = "P" THEN 1 ELSE IF p = "R" THEN 2 ELSE 3

\* The program has no signal of its own.
NoSignals ==
    /\ variant = "impl"
    /\ nextId = 1
    /\ m_isBlocked = [s \in Signals |-> FALSE]
    /\ m_emitGuard = [s \in Signals |-> FALSE]
    /\ owner = [c \in ConnIds |-> NULL]
    /\ stack = <<>>
    /\ slotLock = [c \in ConnIds |-> FALSE]
    /\ exc = "none"
    /\ lastCall = NoCall
    /\ ops = 0
    /\ alive = [o \in Objects |-> TRUE]
    /\ owned = [r \in Receivers |-> TRUE]
    /\ m_connections = [s \in Signals |-> <<>>]
    /\ m_signal = [c \in ConnIds |-> NULL]
    /\ m_target = [c \in ConnIds |-> "none"]
    /\ m_observers = <<>>
    /\ m_slots = [s \in Signals |-> <<>>]
    /\ m_isConnected = [c \in ConnIds |-> FALSE]
    /\ m_trackers = [c \in ConnIds |-> <<>>]
    /\ m_trackedConnections = <<>>
    /\ sigAlive = [s \in Signals |-> TRUE]
    /\ m_host = [s \in Signals |-> "none"]
    /\ hostOwned = FALSE
    /\ m_receiver = [c \in ConnIds |-> NULL]
    /\ sig_observers = [s \in Signals |-> <<>>]
    /\ sig_tracked = [s \in Signals |-> <<>>]
    /\ disconnected = {}
    /\ connectedInEmit = {}

\* Three properties, each constructed with a stored value T().
PropInit ==
    /\ NoSignals
    /\ NoThreads
    /\ bindingClass \in {"ExpressionBinding", "BindingConcept"}
    /\ propAlive = [p \in Props |-> TRUE]
    /\ m_vp = [p \in Props |-> <<Floor(p)>>]
    /\ m_active = [p \in Props |-> Floor(p)]
    /\ m_connectedPropertyValues = [p \in Props |-> <<>>]
    /\ changed = [p \in Props |-> <<>>]
    /\ m_state = [v \in ProvIds |-> IF \E p \in Props : v = Floor(p) THEN "Active" ELSE "Detached"]
    /\ pv_target = [v \in ProvIds |-> IF \E p \in Props : v = Floor(p)
                                      THEN CHOOSE p \in Props : v = Floor(p) ELSE NoProp]
    /\ writeBehavior = [v \in ProvIds |-> IF \E p \in Props : v = Floor(p)
                                          THEN "Keep" ELSE "Discard"]
    /\ m_data = [v \in ProvIds |-> 0]
    /\ m_expression = [v \in ProvIds |-> NoProp]
    /\ m_sourceProperties = [v \in ProvIds |-> <<>>]
    /\ nextProv = Cardinality(Props) + 1
    /\ propCall = NoPropCall
    /\ pops = 0

PropNext ==
    \/ \E p \in Props, behavior \in {"Keep", "Discard"} : Prop_addPropertyValue(p, behavior)
    \/ \E p \in Props, source \in Props : Prop_bind(p, source)
    \/ \E p \in Props, v \in ProvIds : Prop_removePropertyValue(p, v)
    \/ \E p \in Props, x \in Values : Prop_set(p, x)
    \/ \E p \in Props : Prop_get(p)
    \/ \E q \in Props : Prop_destroy(q)

PropSpec == PropInit /\ [][PropNext]_vars

\* Programs whose expressions read in a circle and whose slots read the
\* property that notifies them.

\* The properties an expression bound to p may read so that the reads close a
\* circle: p itself, or a property whose own binding may read p.
Cycles(p) == IF p = "P" THEN {"P", "R"} ELSE IF p = "R" THEN {"R"} ELSE {}

\* property.bind(expression), the expression reading a property of Cycles(p)
Prop_bindCyclic(p, source) ==
    /\ PropCall /\ source \in Cycles(p)
    /\ propAlive[p] /\ propAlive[source]
    /\ nextProv <= MaxProv
    /\ \E o \in RelockOutcomes :
           SetProp(addPropertyValue([Build(o) EXCEPT !.writeBehavior[nextProv] = "Discard",
                                                     !.m_expression[nextProv] = source],
                                    p, nextProv),
                   "bind", p, nextProv, 0)
    /\ nextProv' = nextProv + 1
    /\ UNCHANGED <<signalVars, threadVars, bindingClass>>

\* property.changed.connect(slot), the slot reading the property
Prop_connect(p) ==
    /\ PropCall /\ propAlive[p]
    /\ \A i \in 1..Len(changed[p]) : changed[p][i].by # NULL
    /\ SetProp([PropState EXCEPT !.changed[p] = Append(@, [to |-> p, by |-> NULL])],
               "connect", p, NULL, 0)
    /\ UNCHANGED <<signalVars, threadVars, bindingClass, nextProv>>

ReentryNext ==
    \/ \E p \in Props, behavior \in {"Keep", "Discard"} : Prop_addPropertyValue(p, behavior)
    \/ \E p \in Props, source \in Props : Prop_bind(p, source)
    \/ \E p \in Props, source \in Props : Prop_bindCyclic(p, source)
    \/ \E p \in Props : Prop_connect(p)
    \/ \E p \in Props, v \in ProvIds : Prop_removePropertyValue(p, v)
    \/ \E p \in Props, x \in Values : Prop_set(p, x)
    \/ \E p \in Props : Prop_get(p)

ReentrySpec == PropInit /\ [][ReentryNext]_vars

----------------------------------------------------------------------------
\* Programs in which thread X reads a bound property while thread Y reads
\* another property.  BindingScope::current is a static member, one object
\* for all threads.

lockVars == <<threads, sigHolder, slotHolder, guardFault>>

\* The state as thread Y meets it while X evaluates: X holds the lock of the
\* binding and of its property, and a lock that is held makes Y wait.
HeldByX ==
    [Build("deadlock") EXCEPT !.heldV = {evaluation.binding},
                              !.heldP = {pv_target[evaluation.binding]}]

\* Thread X reads property p, whose active provider is a binding:
\* PropertyValue::evaluate up to the expression.  evaluateOverride opens the
\* BindingScope, which stores the binding in BindingScope::current.
Evaluate_enter(p) ==
    /\ PropCall /\ propAlive[p]
    /\ m_active[p] # NULL
    /\ m_expression[m_active[p]] # NoProp
    /\ LET v == m_active[p]
           tracked == IF BindingScope_current # NULL
                      THEN trackProperty(PropState, BindingScope_current, p)
                      ELSE PropState
       IN  /\ SetState(IF bindingClass = "BindingConcept" THEN Value_reset(tracked, v) ELSE tracked)
           /\ evaluation' = [binding |-> v, at |-> "expression", read |-> {}]
           /\ BindingScope_current' = v
           /\ propCall' = [NoPropCall EXCEPT !.op = "evaluate", !.prop = p, !.prov = v,
                                              !.observed = propCall.observed]
    /\ pops' = pops + 1
    /\ UNCHANGED <<signalVars, lockVars, bindingClass, nextProv>>

\* The expression of the binding X evaluates reads its source property.
Evaluate_expression ==
    /\ evaluation.at = "expression"
    /\ LET v == evaluation.binding
           q == m_expression[v]
           st == IF m_active[q] = NULL
                 THEN [PropState EXCEPT !.ub = TRUE]
                 ELSE PropertyValue_evaluate(
                          [PropState EXCEPT !.heldV = {v}, !.heldP = {pv_target[v]}],
                          m_active[q], BindingScope_current, {v})
       IN  /\ SetState(st)
           /\ propCall' = [propCall EXCEPT !.ub = st.ub]
           /\ evaluation' = [evaluation EXCEPT !.at = "read", !.read = @ \cup {q}]
    /\ UNCHANGED <<signalVars, lockVars, bindingClass, nextProv, pops, BindingScope_current>>

\* The expression has returned: ~BindingScope restores BindingScope::current
\* and evaluate returns.
Evaluate_leave ==
    /\ evaluation.at = "read"
    /\ evaluation' = NoEvaluation
    /\ BindingScope_current' = NULL
    /\ UNCHANGED <<signalVars, lockVars, propVars>>

\* Thread Y reads property r while X is inside its evaluation; Y waits when
\* the read meets a lock X holds.
Other_get(r) ==
    /\ evaluation.at # "idle"
    /\ ~propCall.ub /\ pops < MaxPropOps
    /\ propAlive[r] /\ m_active[r] # NULL
    /\ LET st == PropertyValue_evaluate(HeldByX, m_active[r], BindingScope_current, {})
       IN  /\ ~Stuck(st)
           /\ SetState(st)
           /\ propCall' = [propCall EXCEPT !.ub = st.ub, !.reads = @ + 1]
    /\ pops' = pops + 1
    /\ UNCHANGED <<signalVars, lockVars, bindingClass, nextProv, BindingScope_current, evaluation>>

ScopeNext ==
    \/ \E p \in Props, behavior \in {"Keep", "Discard"} : Prop_addPropertyValue(p, behavior)
    \/ \E p \in Props, source \in Props : Prop_bind(p, source)
    \/ \E p \in Props, x \in Values : Prop_set(p, x)
    \/ \E p \in Props : Evaluate_enter(p)
    \/ Evaluate_expression
    \/ Evaluate_leave
    \/ \E r \in Props : Other_get(r)

ScopeSpec == PropInit /\ [][ScopeNext]_vars

----------------------------------------------------------------------------
\* Programs of two threads on one signal of signal_concept_impl.hpp: each
\* thread calls emit, handle.disconnect(), signal.disconnect(handle) and
\* connect, and the callables of the slots make the same calls.  The slots are
\* those of slot_concept_impl.hpp (variant "concept") or those of
\* core/signal_impl.hpp (variant "core"), whose disconnect asks the signal to
\* forget the slot; m_signal is then core::Slot::m_signal.  A step of a thread is
\* the code between two points at which another thread can be met: the
\* acquisition of a mutex, a read or a write of an atomic, the call of the
\* callable.  The signal and the slots are locked by std::mutex
\* (COMP_CONFIG_THREAD_ENABLED), m_emitGuard is a FlagGuard.

MaxCalls == 2
\* The signal the threads share.
Shared == 1

\* The variables no step of a thread changes.
threadFrame == <<variant, propVars, lifeVars, BindingScope_current, evaluation, m_isBlocked,
                 stack, slotLock, exc, lastCall, ops, alive, owned, m_connections, m_target,
                 m_observers, m_trackers, m_trackedConnections, connectedInEmit>>

\* Faulty variant of unlock: the mutex stays locked.
StillHeld(holders, m) == holders

\* Lockable::unlock of a mutex of the map `holders`.
Lockable_unlock(holders, m) == [holders EXCEPT ![m] = NULL]

\* relock_guard::relock_guard unlocks the mutex it is given.
relock_guard_unlock(holders, m) == Lockable_unlock(holders, m)

\* abort() has not ended the process.
Running == "abort" \notin guardFault

\* The thread is inside a call of disconnect or connect.
InCall(t) == threads[t].call.op # "none"

\* The slot the next step of thread t is about.
SlotOf(t) ==
    IF InCall(t) THEN threads[t].call.slot ELSE threads[t].slots[threads[t].idx + 1]

\* The next step of thread t is Lockable::lock of the signal.
WantsSignal(t) ==
    IF InCall(t) THEN threads[t].call.at = "lock_signal" ELSE threads[t].at = "lock_signal"

\* The next step of thread t is Lockable::lock of the slot SlotOf(t): the
\* lock_guard of the loop, the relock_guard that ends after the callable, after
\* an exception or after the catch block, or the lock_guard of disconnect.
WantsSlot(t) ==
    IF InCall(t) THEN threads[t].call.at = "lock_slot"
    ELSE threads[t].at \in {"lock_slot", "relock", "unwind", "caught"}

\* Where the emission goes when the turn for slot idx has ended.
NextTurn(slots, idx) == IF idx < Len(slots) THEN "lock_slot" ELSE "return"

\* The slot object lives while the signal or a snapshot holds it.
SlotLives(k) ==
    Contains(m_slots[Shared], k) \/ \E t \in Threads : Contains(threads[t].slots, k)

\* The call thread t is inside returns.
CallReturns(t) ==
    [threads[t] EXCEPT !.call = NoThreadCall,
                       !.at = IF @ = "catch" THEN "caught" ELSE @]

\* The test that opens SignalConcept::operator(): a blocked or emitting
\* signal returns at once.
Emit_test(t) ==
    /\ Running
    /\ threads[t].at = "idle" /\ ~InCall(t)
    /\ threads[t].calls < MaxCalls
    /\ threads' = [threads EXCEPT ![t] =
           [@ EXCEPT !.calls = @ + 1, !.ran = <<>>, !.slots = <<>>, !.idx = 0,
                     !.at = IF m_isBlocked[Shared] \/ FlagGuard_isLocked(m_emitGuard, Shared)
                            THEN "idle" ELSE "guard"]]
    /\ UNCHANGED <<threadFrame, m_signal, sigHolder, slotHolder, guardFault, m_emitGuard, m_slots,
                   m_isConnected, nextId, owner, disconnected>>

\* lock_guard guard(m_emitGuard): FlagGuard::lock exchanges the flag and
\* asserts that it was clear; a failed COMP_ASSERT aborts in a DEBUG build.
Emit_guard(t) ==
    /\ Running
    /\ threads[t].at = "guard"
    /\ m_emitGuard' = lock_guard_ctor(m_emitGuard, Shared)
    /\ IF m_emitGuard[Shared]
       THEN \E debug \in BOOLEAN :
                guardFault' = guardFault \cup {"lock"} \cup (IF debug THEN {"abort"} ELSE {})
       ELSE UNCHANGED guardFault
    /\ threads' = [threads EXCEPT ![t].at = "lock_signal"]
    /\ UNCHANGED <<threadFrame, m_signal, sigHolder, slotHolder, m_slots, m_isConnected, nextId, owner,
                   disconnected>>

\* Lockable::lock of the signal; the thread waits while the mutex is held.
Thread_lock_signal(t) ==
    /\ Running
    /\ WantsSignal(t)
    /\ sigHolder = NULL
    /\ sigHolder' = t
    /\ threads' = [threads EXCEPT ![t] =
           IF InCall(t) THEN [@ EXCEPT !.call.at = "signal_locked"]
                        ELSE [@ EXCEPT !.at = "snapshot"]]
    /\ UNCHANGED <<threadFrame, m_signal, slotHolder, guardFault, m_emitGuard, m_slots, m_isConnected,
                   nextId, owner, disconnected>>

\* Under the lock of the signal the disconnected slots are erased and the
\* slots copied; the lock is released.
Emit_snapshot(t) ==
    /\ Running
    /\ threads[t].at = "snapshot" /\ ~InCall(t)
    /\ LET cleaned == SelectSeq(m_slots[Shared],
                                LAMBDA k : SlotConcept_isConnected(ConceptState, k))
       IN  /\ m_slots' = [m_slots EXCEPT ![Shared] = cleaned]
           /\ threads' = [threads EXCEPT ![t] =
                  [@ EXCEPT !.slots = cleaned, !.idx = 0, !.at = NextTurn(cleaned, 0)]]
    /\ sigHolder' = NULL
    /\ UNCHANGED <<threadFrame, m_signal, slotHolder, guardFault, m_emitGuard, m_isConnected, nextId,
                   owner, disconnected>>

\* Lockable::lock of a slot; the thread waits while the mutex is held.
Thread_lock_slot(t) ==
    /\ Running
    /\ WantsSlot(t)
    /\ slotHolder[SlotOf(t)] = NULL
    /\ slotHolder' = [slotHolder EXCEPT ![SlotOf(t)] = t]
    /\ threads' = [threads EXCEPT ![t] =
           IF InCall(t) THEN [@ EXCEPT !.call.at = "slot_locked"]
           ELSE [@ EXCEPT !.at = IF @ = "lock_slot" THEN "check"
                                 ELSE IF @ = "unwind" THEN "catch" ELSE "turn_end"]]
    /\ UNCHANGED <<threadFrame, m_signal, sigHolder, guardFault, m_emitGuard, m_slots, m_isConnected,
                   nextId, owner, disconnected>>

\* The loop tests isConnected() under the lock of the slot: a disconnected
\* slot is skipped, for a connected one relock_guard releases the lock.
Emit_check(t) ==
    /\ Running
    /\ threads[t].at = "check" /\ ~InCall(t)
    /\ slotHolder' = IF SlotConcept_isConnected(ConceptState, SlotOf(t))
                     THEN relock_guard_unlock(slotHolder, SlotOf(t))
                     ELSE Lockable_unlock(slotHolder, SlotOf(t))
    /\ threads' = [threads EXCEPT ![t] =
           IF SlotConcept_isConnected(ConceptState, SlotOf(t))
           THEN [@ EXCEPT !.at = "activate"]
           ELSE [@ EXCEPT !.idx = @ + 1, !.at = NextTurn(threads[t].slots, threads[t].idx + 1)]]
    /\ UNCHANGED <<threadFrame, m_signal, sigHolder, guardFault, m_emitGuard, m_slots, m_isConnected,
                   nextId, owner, disconnected>>

\* SlotConcept::activate tests isConnected() once more and throws bad_slot
\* when the slot is disconnected.
Emit_activate(t) ==
    /\ Running
    /\ threads[t].at = "activate" /\ ~InCall(t)
    /\ threads' = [threads EXCEPT ![t].at =
           IF SlotConcept_isConnected(ConceptState, SlotOf(t)) THEN "invoke" ELSE "unwind"]
    /\ UNCHANGED <<threadFrame, m_signal, sigHolder, slotHolder, guardFault, m_emitGuard, m_slots,
                   m_isConnected, nextId, owner, disconnected>>

\* activate calls activateOverride: the callable of the slot starts to run.
Emit_invoke(t) ==
    /\ Running
    /\ threads[t].at = "invoke" /\ ~InCall(t)
    /\ threads' = [threads EXCEPT ![t] =
           [@ EXCEPT !.at = "callable",
                     !.ran = Append(@, [slot |-> SlotOf(t),
                                        late |-> SlotOf(t) \in disconnected])]]
    /\ UNCHANGED <<threadFrame, m_signal, sigHolder, slotHolder, guardFault, m_emitGuard, m_slots,
                   m_isConnected, nextId, owner, disconnected>>

\* The program, or the callable the thread runs, calls handle.disconnect(),
\* signal.disconnect(handle) or connect.  Connection::disconnect returns at
\* once when the slot object is gone.
Call_begin(t, op, k) ==
    /\ Running
    /\ threads[t].at \in {"idle", "callable"} /\ ~InCall(t)
    /\ threads[t].calls < MaxCalls
    /\ IF op = "connect" THEN k = nextId /\ nextId <= MaxConn ELSE k \in Created
    /\ IF op = "handle_disconnect" /\ ~SlotLives(k)
       THEN /\ threads' = [threads EXCEPT ![t].calls = @ + 1]
            /\ disconnected' = disconnected \cup {k}
       ELSE /\ threads' = [threads EXCEPT ![t] =
                   [@ EXCEPT !.calls = @ + 1,
                             !.call = [op |-> op, slot |-> k, pending |-> FALSE,
                                       at |-> IF op = "handle_disconnect"
                                              THEN "lock_slot" ELSE "lock_signal"]]]
            /\ UNCHANGED disconnected
    /\ UNCHANGED <<threadFrame, m_signal, sigHolder, slotHolder, guardFault, m_emitGuard, m_slots,
                   m_isConnected, nextId, owner>>

\* Under the lock of the signal: addSlot appends the new slot; the disconnect
\* of the signal erases the slot, leaves the lock and goes on to
\* connection.disconnect(), or returns when the signal does not hold the slot.
\* It returns into the core::Slot::disconnect that called it, if one did, and
\* the relock_guard of that one locks the slot again.
Call_signal_locked(t) ==
    /\ Running
    /\ threads[t].call.at = "signal_locked"
    /\ sigHolder' = NULL
    /\ LET k == threads[t].call.slot
       IN  IF threads[t].call.op = "connect"
           THEN /\ m_slots' = SignalConcept_addSlot(m_slots, Shared, k)
                /\ m_isConnected' = [m_isConnected EXCEPT ![k] = TRUE]
                /\ m_signal' = [m_signal EXCEPT ![k] = IF variant = "core" THEN Shared ELSE NULL]
                /\ owner' = [owner EXCEPT ![k] = Shared]
                /\ nextId' = nextId + 1
                /\ threads' = [threads EXCEPT ![t] = CallReturns(t)]
           ELSE IF Contains(m_slots[Shared], k)
           THEN /\ m_slots' = [m_slots EXCEPT ![Shared] = erase(@, k)]
                /\ threads' = [threads EXCEPT ![t].call.at = "lock_slot"]
                /\ UNCHANGED <<m_isConnected, m_signal, owner, nextId>>
           ELSE /\ threads' = [threads EXCEPT ![t] =
                       IF threads[t].call.pending
                       THEN [@ EXCEPT !.call.at = "lock_slot", !.call.pending = FALSE]
                       ELSE CallReturns(t)]
                /\ UNCHANGED <<m_slots, m_isConnected, m_signal, owner, nextId>>
    /\ UNCHANGED <<threadFrame, slotHolder, guardFault, m_emitGuard, disconnected>>

\* disconnect of the slot under the lock of the slot.  core::Slot::disconnect
\* first clears m_signal, releases the lock by relock_guard and calls the
\* disconnect of the signal.  Then, as SlotConcept::disconnect does at once,
\* the flag is cleared, the lock released, and disconnect returns.
Call_slot_locked(t) ==
    /\ Running
    /\ threads[t].call.at = "slot_locked"
    /\ LET k == threads[t].call.slot
       IN  IF variant = "core" /\ m_signal[k] # NULL
           THEN /\ m_signal' = [m_signal EXCEPT ![k] = NULL]
                /\ slotHolder' = relock_guard_unlock(slotHolder, k)
                /\ threads' = [threads EXCEPT ![t].call.at = "lock_signal",
                                              ![t].call.pending = TRUE]
                /\ UNCHANGED <<m_isConnected, disconnected>>
           ELSE /\ m_isConnected' = [m_isConnected EXCEPT ![k] = FALSE]
                /\ slotHolder' = Lockable_unlock(slotHolder, k)
                /\ UNCHANGED m_signal
                /\ IF threads[t].call.pending
                   THEN /\ threads' = [threads EXCEPT ![t].call.at = "lock_slot",
                                                      ![t].call.pending = FALSE]
                        /\ UNCHANGED disconnected
                   ELSE /\ threads' = [threads EXCEPT ![t] = CallReturns(t)]
                        /\ disconnected' = disconnected \cup {k}
    /\ UNCHANGED <<threadFrame, sigHolder, guardFault, m_emitGuard, m_slots, nextId, owner>>

\* The callable returns; the relock_guard is about to lock the slot again.
Emit_callable_return(t) ==
    /\ Running
    /\ threads[t].at = "callable" /\ ~InCall(t)
    /\ threads' = [threads EXCEPT ![t].at = "relock"]
    /\ UNCHANGED <<threadFrame, m_signal, sigHolder, slotHolder, guardFault, m_emitGuard, m_slots,
                   m_isConnected, nextId, owner, disconnected>>

\* catch (bad_slot): relock_guard releases the lock of the slot and the
\* signal disconnects the slot.
Emit_catch(t) ==
    /\ Running
    /\ threads[t].at = "catch" /\ ~InCall(t)
    /\ slotHolder' = relock_guard_unlock(slotHolder, SlotOf(t))
    /\ threads' = [threads EXCEPT ![t].call =
           [op |-> "signal_disconnect", slot |-> SlotOf(t), at |-> "lock_signal",
            pending |-> FALSE]]
    /\ UNCHANGED <<threadFrame, m_signal, sigHolder, guardFault, m_emitGuard, m_slots, m_isConnected,
                   nextId, owner, disconnected>>

\* The turn ends: the lock_guard of the loop releases the lock of the slot.
Emit_turn_end(t) ==
    /\ Running
    /\ threads[t].at = "turn_end" /\ ~InCall(t)
    /\ slotHolder' = Lockable_unlock(slotHolder, SlotOf(t))
    /\ threads' = [threads EXCEPT ![t] =
           [@ EXCEPT !.idx = @ + 1, !.at = NextTurn(threads[t].slots, threads[t].idx + 1)]]
    /\ UNCHANGED <<threadFrame, m_signal, sigHolder, guardFault, m_emitGuard, m_slots, m_isConnected,
                   nextId, owner, disconnected>>

\* The loop is over: FlagGuard::unlock clears the flag and asserts that it
\* was set; operator() returns.
Emit_return(t) ==
    /\ Running
    /\ threads[t].at = "return" /\ ~InCall(t)
    /\ m_emitGuard' = lock_guard_dtor(m_emitGuard, Shared)
    /\ guardFault' = IF m_emitGuard[Shared] THEN guardFault ELSE guardFault \cup {"unlock"}
    /\ threads' = [threads EXCEPT ![t] = [@ EXCEPT !.at = "idle", !.slots = <<>>, !.idx = 0]]
    /\ UNCHANGED <<threadFrame, m_signal, sigHolder, slotHolder, m_slots, m_isConnected, nextId, owner,
                   disconnected>>

\* Two slots are connected to the shared signal when the threads start.
ThreadInit ==
    /\ variant \in {"concept", "core"}
    /\ nextId = InitSlots + 1
    /\ m_isBlocked = [s \in Signals |-> FALSE]
    /\ m_emitGuard = [s \in Signals |-> FALSE]
    /\ owner = [c \in ConnIds |-> IF c < nextId THEN InitSignal(c) ELSE NULL]
    /\ stack = <<>>
    /\ slotLock = [c \in ConnIds |-> FALSE]
    /\ exc = "none"
    /\ lastCall = NoCall
    /\ ops = 0
    /\ alive = [o \in Objects |-> TRUE]
    /\ owned = [r \in Receivers |-> TRUE]
    /\ m_connections = [s \in Signals |-> <<>>]
    /\ m_signal = [c \in ConnIds |-> IF variant = "core" /\ c < nextId THEN InitSignal(c) ELSE NULL]
    /\ m_target = [c \in ConnIds |-> "none"]
    /\ m_observers = <<>>
    /\ m_slots = [s \in Signals |-> InitSlotsOf(s, nextId - 1)]
    /\ m_isConnected = [c \in ConnIds |-> c < nextId]
    /\ m_trackers = [c \in ConnIds |-> <<>>]
    /\ m_trackedConnections = <<>>
    /\ sigAlive = [s \in Signals |-> TRUE]
    /\ m_host = [s \in Signals |-> "none"]
    /\ hostOwned = FALSE
    /\ m_receiver = [c \in ConnIds |-> NULL]
    /\ sig_observers = [s \in Signals |-> <<>>]
    /\ sig_tracked = [s \in Signals |-> <<>>]
    /\ NoProperties
    /\ NoThreads
    /\ disconnected = {}
    /\ connectedInEmit = {}

ThreadNext ==
    \/ \E t \in Threads : Emit_test(t)
    \/ \E t \in Threads : Emit_guard(t)
    \/ \E t \in Threads : Thread_lock_signal(t)
    \/ \E t \in Threads : Emit_snapshot(t)
    \/ \E t \in Threads : Thread_lock_slot(t)
    \/ \E t \in Threads : Emit_check(t)
    \/ \E t \in Threads : Emit_activate(t)
    \/ \E t \in Threads : Emit_invoke(t)
    \/ \E t \in Threads, k \in ConnIds :
           \E op \in {"handle_disconnect", "signal_disconnect", "connect"} : Call_begin(t, op, k)
    \/ \E t \in Threads : Call_signal_locked(t)
    \/ \E t \in Threads : Call_slot_locked(t)
    \/ \E t \in Threads : Emit_callable_return(t)
    \/ \E t \in Threads : Emit_catch(t)
    \/ \E t \in Threads : Emit_turn_end(t)
    \/ \E t \in Threads : Emit_return(t)

ThreadSpec == ThreadInit /\ [][ThreadNext]_vars

----------------------------------------------------------------------------
\* Properties.

\* The emissions in progress and the one that has just returned.
Frames ==
    Range(stack) \cup (IF lastCall.frame.sig # NULL THEN {lastCall.frame} ELSE {})

\* The connections the signal of frame f holds.
Held(f) == IF variant = "impl" THEN m_connections[f.sig] ELSE m_slots[f.sig]

\* Every connected slot of the frame that the loop reached was activated,
\* and the loop reached the end of the snapshot.
Complete(f) ==
    /\ Len(f.turns) = Len(f.slots)
    /\ \A j \in 1..Len(f.turns) : f.turns[j].connected => f.turns[j].activated

\* C1: an emit that dispatches takes the slots that were connected when the
\* snapshot was taken, in the order of their connect calls, gives each one
\* turn, activates in its turn exactly the slots that are still connected
\* then, and on normal completion has given every slot of the snapshot its
\* turn.  (An activation that then fails for a dead receiver is the matter of
\* C8 and C9.)
C1_EmitInConnectionOrder ==
    /\ \A f \in Frames :
          /\ Range(f.slots) = f.snapValid
          /\ \A i, j \in 1..Len(f.slots) : i < j => f.slots[i] < f.slots[j]
          /\ Len(f.turns) <= Len(f.slots)
          /\ \A i \in 1..Len(f.turns) :
                /\ f.turns[i].conn = f.slots[i]
                /\ f.turns[i].activated <=> f.turns[i].connected
    /\ lastCall.how = "normal" => Complete(lastCall.frame)

\* An emit has returned normally after running two callables and skipping a
\* slot that was disconnected meanwhile.
C1_Witness ==
    /\ lastCall.how = "normal"
    /\ RanCount(lastCall.frame) >= 2
    /\ \E i \in 1..Len(lastCall.frame.turns) : ~lastCall.frame.turns[i].connected

\* C2: once disconnect() has returned on a handle, the handle reports invalid
\* in every later state, and no turn that begins afterwards activates the
\* slot or runs its callable.
C2_DisconnectIsFinal ==
    /\ \A c \in disconnected : ~HandleValid(c)
    /\ \A f \in Frames : \A i \in 1..Len(f.turns) :
          f.turns[i].late => ~f.turns[i].activated /\ ~f.turns[i].ran

\* A later emit of the signal runs a callable while a slot that was
\* disconnected by its handle is not part of the snapshot.
C2_Witness ==
    \E c \in disconnected : \E i \in 1..Len(stack) :
        /\ stack[i].sig = owner[c]
        /\ c < stack[i].born
        /\ c \notin Range(stack[i].slots)
        /\ RanCount(stack[i]) >= 1

\* C3: when disconnectTrackedConnections (called by the program or by the
\* destructor of the tracker) has returned, the list of tracked connections
\* is empty and the handle of every slot the tracker was bound to reports
\* invalid, wherever the call was made from.
C3_TrackerDisconnectsAll ==
    lastCall.how = "cleared" =>
        /\ m_trackedConnections = <<>>
        /\ \A k \in lastCall.bound : ~HandleValid(k)

\* The tracker was destroyed while bound to slots of two signals.
C3_Witness ==
    /\ lastCall.how = "cleared"
    /\ ~alive["T"]
    /\ \E k1, k2 \in lastCall.bound : owner[k1] # owner[k2]

\* C4: isConnected() of a slot is true exactly when its flag is set and
\* every tracker bound to it is alive, and a handle is valid exactly when its
\* slot exists and is connected in that sense.
C4_ConnectedIffFlagAndTrackers ==
    variant = "concept" =>
        \A k \in Created :
            /\ SlotAlive(ConceptState, stack, k) =>
                   (SlotConcept_isConnected(ConceptState, k) <=> Connected(k))
            /\ HandleValid(k) <=> (SlotAlive(ConceptState, stack, k) /\ Connected(k))

\* A slot with two trackers bound, one of them dead and the other alive, has
\* its flag set and is not connected.
C4_Witness ==
    /\ variant = "concept"
    /\ \E k \in Created :
          /\ m_isConnected[k]
          /\ Contains(m_trackers[k], "T") /\ Contains(m_trackers[k], "W")
          /\ alive["T"] /\ ~alive["W"]
          /\ SlotAlive(ConceptState, stack, k)
          /\ ~HandleValid(k)

\* The result of an emit that dispatches nothing.
Degenerate == IF variant = "impl" THEN -1 ELSE 0

\* C5: no signal has two emissions in progress; an emit on a signal that is
\* emitting (or blocked) runs no turn and returns the degenerate result; and
\* it leaves every emission in progress, with its turns and its count, as it
\* was.
C5_ReentrantEmitIsNoOp ==
    /\ [](/\ \A i, j \in 1..Len(stack) : i # j => stack[i].sig # stack[j].sig
          /\ lastCall.how = "suppressed" =>
                /\ lastCall.result = Degenerate
                /\ lastCall.frame = NoFrame
                /\ m_isBlocked[lastCall.sig] \/ Emitting(lastCall.sig))
    /\ [][lastCall'.how = "suppressed" => stack' = stack]_vars

\* A callable running in an emission of an unblocked signal has called emit
\* on that signal, and the call has returned.
C5_Witness ==
    /\ lastCall.how = "suppressed"
    /\ ~m_isBlocked[lastCall.sig]
    /\ stack # <<>>
    /\ Top.active /\ Top.sig = lastCall.sig

\* C6: the snapshot of an emission holds no connection made after the
\* emission began, so such a connection gets no turn in it; and a connection
\* made during an emission of its signal is in the snapshot of every later
\* emission that begins while it is connected, and is activated in its turn
\* there while still connected.
C6_ConnectedDuringEmission ==
    \A f \in Frames :
        /\ \A i \in 1..Len(f.slots) : f.slots[i] < f.born
        /\ \A i \in 1..Len(f.turns) : f.turns[i].conn < f.born
        /\ \A c \in connectedInEmit :
              (owner[c] = f.sig /\ c < f.born /\ c \in f.snapValid) =>
                  /\ Contains(f.slots, c)
                  /\ \A i \in 1..Len(f.turns) :
                        (f.turns[i].conn = c /\ f.turns[i].connected) => f.turns[i].activated
                  /\ (f = lastCall.frame /\ lastCall.how = "normal") =>
                        \E i \in 1..Len(f.turns) : f.turns[i].conn = c

\* A later emission runs the callable of a connection that was made during
\* an earlier emission of the same signal.
C6_Witness ==
    \E n \in 1..Len(stack) : \E i \in 1..Len(stack[n].turns) :
        /\ stack[n].turns[i].conn \in connectedInEmit
        /\ stack[n].turns[i].ran

\* C7: a slot of the snapshot that is no longer connected when its turn
\* comes is neither activated nor run, and the emission goes on: when it
\* completes normally every later slot of the snapshot has had its turn,
\* and the connected ones were activated.
C7_DisconnectedSlotIsSkipped ==
    \A f \in Frames : \A i \in 1..Len(f.turns) :
        (f.turns[i].conn \in f.snapValid /\ ~f.turns[i].connected) =>
            /\ ~f.turns[i].activated /\ ~f.turns[i].ran
            /\ (f = lastCall.frame /\ lastCall.how = "normal") =>
                  \A j \in (i + 1)..Len(f.slots) :
                      /\ j <= Len(f.turns)
                      /\ f.turns[j].connected => f.turns[j].activated

\* An emission has skipped a slot that was disconnected after the snapshot
\* and has run the callable of a slot after it.
C7_Witness ==
    /\ lastCall.how = "normal"
    /\ \E i, j \in 1..Len(lastCall.frame.turns) :
          /\ i < j
          /\ lastCall.frame.turns[i].conn \in lastCall.frame.snapValid
          /\ ~lastCall.frame.turns[i].connected
          /\ lastCall.frame.turns[j].ran

\* C8: after an activation has failed with bad_slot or bad_weak_ptr the
\* slot is out of its signal and its handle reports invalid, the turn is
\* over and the loop goes on (on normal completion every later slot has had
\* its turn), and an exception that leaves emit never comes from such a
\* failure.
C8_BadSlotIsCaught ==
    /\ \A f \in Frames : \A i \in 1..Len(f.turns) :
          f.turns[i].failed =>
              /\ ~HandleValid(f.turns[i].conn)
              /\ ~Contains(Held(f), f.turns[i].conn)
              /\ i <= f.idx
              /\ (f = lastCall.frame /\ lastCall.how = "normal") => Complete(f)
    /\ exc = "user" =>
          /\ lastCall.how = "exception"
          /\ ~lastCall.frame.turns[Len(lastCall.frame.turns)].failed

\* An emission has completed normally after an activation failed and the
\* callable of a later slot ran.
C8_Witness ==
    /\ lastCall.how = "normal"
    /\ \E i, j \in 1..Len(lastCall.frame.turns) :
          /\ i < j
          /\ lastCall.frame.turns[i].failed
          /\ lastCall.frame.turns[j].ran

\* C9: the count an emit of revision "impl" returns is the number of
\* callables that ran in it, and a slot whose activation failed without
\* running its callable has an invalid handle afterwards.
C9_CountIsCallablesRun ==
    (variant = "impl" /\ lastCall.how = "normal") =>
        /\ lastCall.result = RanCount(lastCall.frame)
        /\ \A i \in 1..Len(lastCall.frame.turns) :
              (lastCall.frame.turns[i].failed /\ ~lastCall.frame.turns[i].ran) =>
                  ~HandleValid(lastCall.frame.turns[i].conn)

\* C10: no slot lock is held while user code runs or after emit has
\* returned; the re-entry flag of a signal is set exactly while an emission
\* of it is in progress, so it is clear after emit has returned normally, by
\* the collector stopping the loop or by an exception; and an emit is
\* suppressed only on a blocked or emitting signal.
C10_GuardsReleased ==
    /\ \A c \in ConnIds : ~slotLock[c]
    /\ \A s \in Signals : m_emitGuard[s] <=> Emitting(s)
    /\ lastCall.how \in {"normal", "stopped", "exception"} => ~m_emitGuard[lastCall.sig]
    /\ lastCall.how = "suppressed" => m_isBlocked[lastCall.sig] \/ Emitting(lastCall.sig)

\* An exception has left the outermost emit after the callables of earlier
\* slots ran.
C10_Witness ==
    /\ lastCall.how = "exception"
    /\ exc = "user"
    /\ stack = <<>>
    /\ lastCall.frame.idx >= 1

\* C11: once the collector has answered false the emission takes no further
\* turn: the turn it stopped after is its last one, so no slot at a later
\* position of the snapshot is activated.  Stopping changes no connection:
\* the slots left out that are connected are still held by the signal, and
\* the emit called next on the signal has each of them in its snapshot and,
\* on normal completion, has activated each one that was still connected at
\* its turn.
C11_CollectorStopsLoop ==
    /\ \A f \in Frames :
          f.stop =>
              /\ ~f.active
              /\ f.idx >= 1
              /\ Len(f.turns) = f.idx
              /\ f.turns[f.idx].ran /\ ~f.turns[f.idx].failed
    /\ lastCall.how = "stopped" =>
          \A j \in (lastCall.frame.idx + 1)..Len(lastCall.frame.slots) :
              Connected(lastCall.frame.slots[j]) =>
                  Contains(Held(lastCall.frame), lastCall.frame.slots[j])
    /\ \A f \in Frames : \A k \in f.owed :
          /\ Contains(f.slots, k)
          /\ \A i \in 1..Len(f.turns) :
                (f.turns[i].conn = k /\ f.turns[i].connected) => f.turns[i].activated
          /\ (f = lastCall.frame /\ lastCall.how = "normal") =>
                \E i \in 1..Len(f.turns) : f.turns[i].conn = k

\* The emit called after a stopped one has run the callable of a slot that
\* the stopped emission left without a turn.
C11_Witness ==
    /\ lastCall.how = "normal"
    /\ \E i \in 1..Len(lastCall.frame.turns) :
          /\ lastCall.frame.turns[i].conn \in lastCall.frame.owed
          /\ lastCall.frame.turns[i].ran

\* C12: an emit on a blocked signal starts no emission and returns the
\* degenerate result, and it changes nothing: not the containers of the
\* signals, not the state of any connection, tracker or lock, not the
\* emissions in progress.  setBlocked changes the blocked flag of its signal
\* and nothing else, so blocking and unblocking a signal brings the program
\* back to the state it was in, and the next emit dispatches as it would
\* have.
C12_BlockedEmitChangesNothing ==
    /\ [](lastCall.how = "suppressed" =>
              /\ lastCall.result = Degenerate
              /\ lastCall.frame = NoFrame)
    /\ [][lastCall'.how = "suppressed" =>
              UNCHANGED <<variant, propVars, threadVars, lifeVars, m_isBlocked, m_emitGuard, nextId, owner, stack, slotLock,
                          exc, alive, owned, implVars, conceptVars, history>>]_vars
    /\ [][Len(stack') > Len(stack) => ~m_isBlocked[stack'[Len(stack')].sig]]_vars
    /\ [][m_isBlocked' # m_isBlocked =>
              /\ \E s \in Signals : m_isBlocked' = [m_isBlocked EXCEPT ![s] = ~@]
              /\ UNCHANGED <<variant, propVars, threadVars, lifeVars, m_emitGuard, nextId, owner, stack, slotLock,
                             exc, alive, owned, implVars, conceptVars, history>>]_vars

\* An emit was called on a blocked signal that is not emitting and holds a
\* connected slot, and has returned.
C12_Witness ==
    /\ lastCall.how = "suppressed"
    /\ m_isBlocked[lastCall.sig]
    /\ ~Emitting(lastCall.sig)
    /\ \E c \in Created : owner[c] = lastCall.sig /\ Connected(c)
                          /\ Contains(Held([sig |-> lastCall.sig]), c)

----------------------------------------------------------------------------
\* Connections between signals.

\* The connections that forward to a signal.
ForwardingSlots == {c \in Created : m_receiver[c] # NULL}

\* What became of the emit that the t-th turn of frame f made on its receiver.
ForwardOf(f, t) ==
    IF t = f.idx + 1 /\ f.active THEN f.fwd ELSE f.turns[t].forward

\* C13 (as far as the code keeps it): once the receiver S2 of a connection
\* S1.connect(S2) is destroyed, the handle to the connection is invalid and
\* no emit of S1 calls emit on S2; while S2 is alive, each activation of the
\* connection calls emit on S2 once, and that call runs an emission of S2
\* unless S2 is blocked or is emitting at that moment.
C13_ForwardingFollowsReceiver ==
    /\ [](\A c \in ForwardingSlots : ~sigAlive[m_receiver[c]] => ~HandleValid(c))
    /\ [](\A f \in Frames : \A t \in 1..Len(f.turns) :
              /\ ForwardOf(f, t) # "dangling"
              /\ (f.turns[t].conn \in ForwardingSlots /\ f.turns[t].activated
                  /\ ~(t = f.idx + 1 /\ f.active))
                     => ForwardOf(f, t) \in {"ran", "blocked", "emitting"})
    /\ [][(stack # <<>> /\ Forwarding(Top) /\ Top.fwd = "no" /\ exc = "none"
           /\ Len(stack') >= Len(stack) /\ stack'[Len(stack)].fwd # "no")
          => LET r == m_receiver[Current(Top)]
                 x == stack'[Len(stack)].fwd
             IN  /\ sigAlive[r]
                 /\ x = (IF m_isBlocked[r] THEN "blocked"
                         ELSE IF FlagGuard_isLocked(m_emitGuard, r) THEN "emitting"
                         ELSE "ran")
                 /\ IF x = "ran"
                    THEN /\ Len(stack') = Len(stack) + 1
                         /\ stack'[Len(stack')].sig = r
                         /\ stack'[Len(stack')].idx = 0
                         /\ m_emitGuard' = [m_emitGuard EXCEPT ![r] = TRUE]
                    ELSE /\ Len(stack') = Len(stack)
                         /\ UNCHANGED m_emitGuard]_vars

\* An emit of S1 has returned; while it ran, a slot destroyed the receiver S2
\* of a connection later in the snapshot, and the loop passed the connection
\* over.
C13_Witness ==
    /\ lastCall.how = "normal"
    /\ \E t \in 1..Len(lastCall.frame.turns) :
          LET c == lastCall.frame.turns[t].conn
          IN  /\ c \in ForwardingSlots
              /\ ~lastCall.frame.turns[t].activated
              /\ c \notin disconnected
              /\ ~sigAlive[m_receiver[c]]
              /\ ~HandleValid(c)

\* C13 as the specification words it: while S2 is alive, each emit of S1
\* that reaches the connection runs one emission of S2.
C13_EachEmitRunsReceiver ==
    \A f \in Frames : \A t \in 1..Len(f.turns) :
        (f.turns[t].conn \in ForwardingSlots /\ f.turns[t].activated
         /\ ~(t = f.idx + 1 /\ f.active))
            => ForwardOf(f, t) = "ran"

----------------------------------------------------------------------------
\* The destruction of a signal.

\* The slot mutexes the destructor of signal s locks on its way.
DtorLocks(s) ==
    IF variant = "impl" THEN {} ELSE Range(m_slots[s]) \cup Range(sig_tracked[s])

\* C14: a destroyed signal holds no slot and every handle to a slot of it is
\* invalid; once a slot has destroyed the signal of the emission that runs
\* it, the loop of that emission activates no further slot of the snapshot;
\* and wherever user code may destroy a signal, the locks the destructor
\* takes are free.
C14_DestroyDisconnectsAll ==
    /\ [](\A s \in Signals : ~sigAlive[s] =>
              /\ Held([sig |-> s]) = <<>>
              /\ \A c \in Created : owner[c] = s => ~HandleValid(c) /\ ~Connected(c))
    /\ [](\A s \in Signals : (UserCode /\ sigAlive[s]) =>
              \A k \in DtorLocks(s) : ~slotLock[k])
    /\ [][(InLoop /\ ~sigAlive[Top.sig] /\ Len(stack') >= Len(stack))
          => LET g == stack'[Len(stack)]
             IN  /\ ~g.active
                 /\ g.result = Top.result
                 /\ \A t \in (Len(Top.turns) + 1)..Len(g.turns) : ~g.turns[t].activated]_vars

\* An emit has returned whose signal one of its slots destroyed: the slot
\* ran, and a slot later in the snapshot, connected until then, got its turn
\* without being activated.
C14_Witness ==
    /\ lastCall.how = "normal"
    /\ ~sigAlive[lastCall.sig]
    /\ \E t \in 1..Len(lastCall.frame.turns) :
          /\ lastCall.frame.turns[t].ran
          /\ \E u \in (t + 1)..Len(lastCall.frame.turns) :
                /\ ~lastCall.frame.turns[u].activated
                /\ lastCall.frame.turns[u].conn \in lastCall.frame.snapValid
                /\ lastCall.frame.turns[u].conn \notin disconnected

----------------------------------------------------------------------------
\* Member signals.

\* C15: while an emission of the member signal is in progress the host, and
\* with it the signal, is alive, also after a slot has released the last
\* owner the program held; every slot of the snapshot is activated, unless
\* its handle was disconnected or the signal it forwards to was destroyed;
\* and an emit attempted on the signal of a dead host dispatches nothing.
C15_HostOutlivesEmission ==
    /\ \A f \in Range(stack) : m_host[f.sig] # "none" => sigAlive[f.sig]
    /\ \A f \in Frames : m_host[f.sig] # "none" =>
          \A t \in 1..Len(f.turns) :
              LET c == f.turns[t].conn
              IN  (/\ c \in f.snapValid
                   /\ ~f.turns[t].late
                   /\ (c \in ForwardingSlots => sigAlive[m_receiver[c]]))
                      => f.turns[t].activated
    /\ lastCall.how = "expired" => lastCall.frame = NoFrame /\ ~sigAlive[lastCall.sig]

----------------------------------------------------------------------------
\* The provider stack.

\* No property has been destroyed.
AllPropsAlive == \A p \in Props : propAlive[p]

\* The stack of p as C16 describes it: the provider that answers reads is in
\* the stack and Active, every other provider of the stack is Inactive.
OneActive(p) ==
    /\ m_active[p] # NULL
    /\ Contains(m_vp[p], m_active[p])
    /\ \A v \in Range(m_vp[p]) :
           m_state[v] = IF v = m_active[p] THEN "Active" ELSE "Inactive"

\* C16: after any sequence of completed add_provider, remove_provider, bind
\* and set calls on a property, exactly one provider of its stack is Active
\* and it is the one that answers reads, every other provider of the stack is
\* Inactive, none is Detached, and every call has completed.
C16_OneActiveProvider ==
    AllPropsAlive => (~propCall.ub /\ \A p \in Props : OneActive(p))

\* The providers of the stack of p with write policy Keep.
KeepProviders(p) == {v \in Range(m_vp[p]) : writeBehavior[v] = "Keep"}

\* C17: after any sequence of add_provider, remove_provider, bind and set
\* calls that have all completed, the stack of every property holds at least
\* one provider with write policy Keep.
C17_KeepFloor ==
    (AllPropsAlive /\ ~propCall.ub) => \A p \in Props : KeepProviders(p) # {}

----------------------------------------------------------------------------
\* Bindings.

\* The bindings in the stack of p.
Bindings(p) == {v \in Range(m_vp[p]) : m_expression[v] # NoProp}

\* Provider v tracks a connection of some changed signal.
Tracks(v) == \E q \in Props : \E i \in 1..Len(changed[q]) : changed[q][i].by = v

\* The value a read of p returns.
ValueOf(p) == IF m_active[p] = NULL THEN 0 ELSE PropertyValue_value(PropState, m_active[p], {})

\* The step is the call `op` on property p, and the call completes.
Completes(op, p) ==
    /\ pops' = pops + 1
    /\ propCall'.op = op /\ propCall'.prop = p
    /\ ~propCall'.ub /\ propCall'.relock \in {"no", "pass"}

\* C18: a set of P that follows a bind of P leaves P reading the value set and
\* the binding Detached, out of P's stack and without connections; from then
\* on a set of a property the binding read neither fires P.changed nor changes
\* the value P returns.
C18_SetDiscardsBinding ==
    [][\A p \in Props :
          /\ Completes("set", p) =>
                /\ ValueOf(p)' = propCall'.value
                /\ \A b \in Bindings(p) :
                      /\ m_state'[b] = "Detached"
                      /\ b \notin Range(m_vp'[p])
                      /\ ~Tracks(b)'
          /\ \A q \in Props \ {p} :
                (Completes("set", q) /\ propAlive[p] /\ Bindings(p) = {}) =>
                    /\ propCall'.fired[p] = 0
                    /\ ValueOf(p)' = ValueOf(p)]_vars

\* The active provider of p is a binding whose expression reads q.
BoundTo(p, q) ==
    /\ propAlive[p] /\ propAlive[q]
    /\ m_active[p] # NULL
    /\ m_state[m_active[p]] = "Active"
    /\ m_expression[m_active[p]] = q

\* C19: while the active provider of P is a binding that reads Q, every call
\* that fires Q.changed fires P.changed too, be it the first call after bind
\* or a call after any number of reads of P.
C19_BindingForwardsChanged ==
    [][\A p \in Props, q \in Props :
          (BoundTo(p, q) /\ pops' = pops + 1 /\ ~propCall'.ub /\ propCall'.fired[q] > 0)
              => propCall'.fired[p] > 0]_vars

\* A set of Q has fired Q.changed and P.changed, P being bound to Q by a
\* binding that a read of P had evaluated once more.
C19_Witness ==
    /\ BoundTo("P", "Q")
    /\ propCall.op = "set" /\ propCall.prop = "Q" /\ ~propCall.ub
    /\ propCall.fired["Q"] = 1
    /\ propCall.fired["P"] > 0
    /\ Len(m_sourceProperties[m_active["P"]]) > 1

\* The step is the destruction of property q.
Destroys(q) == pops' = pops + 1 /\ propCall'.op = "destroy" /\ propCall'.prop = q

\* C20: when Q is destroyed, every property P whose active binding reads Q
\* loses that binding from its stack, the topmost remaining provider of P is
\* Active and answers reads, and P.changed has fired exactly once.
C20_DestroyedSourceRevertsBinding ==
    [][\A p \in Props, q \in Props :
          (BoundTo(p, q) /\ Destroys(q)) =>
              /\ ~propCall'.ub
              /\ m_active[p] \notin Range(m_vp'[p])
              /\ m_vp'[p] # <<>>
              /\ m_active'[p] = m_vp'[p][Len(m_vp'[p])]
              /\ m_state'[m_active'[p]] = "Active"
              /\ propCall'.fired[p] = 1]_vars

----------------------------------------------------------------------------
\* Calls on one property.

\* C21: a set that reaches the provider that was already active fires
\* P.changed not at all when the provider holds the value set, and exactly
\* once when it holds another value.
C21_SetFiresOnChangeOnly ==
    [][\A p \in Props :
          (Completes("set", p) /\ m_active'[p] = m_active[p]) =>
              propCall'.fired[p] = IF m_data[m_active[p]] = propCall'.value THEN 0 ELSE 1]_vars

\* A set of P has stored the value P already held and P.changed has not fired.
C21_Witness ==
    /\ propCall.op = "set" /\ propCall.prop = "P" /\ ~propCall.ub
    /\ pops > 1
    /\ propCall.fired["P"] = 0
    /\ ValueOf("P") = propCall.value

\* C22: a call that evaluates a binding whose expression reads, directly or
\* through other bindings, the property the binding is attached to returns:
\* the inner evaluate of the provider that is already evaluating neither
\* blocks nor aborts.
C22_CyclicEvaluationReturns ==
    propCall.reentered => (propCall.relock \in {"no", "pass"} /\ ~propCall.ub)

\* C23: while the slots of P.changed run in a set, the thread holds neither the
\* lock of P nor the lock of the provider being set, so a slot that reads P
\* meets no lock its thread holds and the set returns.
C23_SetNotifiesUnlocked ==
    (propCall.op = "set" /\ propCall.reads > 0) => (propCall.relock = "no" /\ ~propCall.ub)

----------------------------------------------------------------------------
\* Adding and removing providers.

\* The step is a call that adds a provider to the stack of p, and it completes.
Adds(p) == Completes("add", p) \/ Completes("bind", p)

\* C25: adding a Detached provider leaves it Active on top of the stack and
\* answering reads, leaves the provider that was active Inactive, and fires
\* P.changed exactly once, whatever the new provider evaluates to.
C25_AddActivatesOnTop ==
    [][\A p \in Props :
          (Adds(p) /\ m_state[propCall'.prov] = "Detached") =>
              /\ m_vp'[p] = Append(m_vp[p], propCall'.prov)
              /\ m_active'[p] = propCall'.prov
              /\ m_state'[propCall'.prov] = "Active"
              /\ m_active[p] # NULL => m_state'[m_active[p]] = "Inactive"
              /\ propCall'.fired[p] = 1]_vars

\* A provider was added above an active one and evaluates to the value the
\* property already had.
C25_Witness ==
    /\ propCall.op = "add" /\ propCall.prop = "P" /\ ~propCall.ub
    /\ Len(m_vp["P"]) > 1
    /\ m_active["P"] = propCall.prov
    /\ m_data[m_vp["P"][Len(m_vp["P"]) - 1]] = UserValue
    /\ m_state[m_vp["P"][Len(m_vp["P"]) - 1]] = "Inactive"
    /\ propCall.fired["P"] = 1

\* The step is the call that removes a provider from the stack of p.
Removes(p) == pops' = pops + 1 /\ propCall'.op = "remove" /\ propCall'.prop = p

\* What C26 asks of the removal of provider v from the stack of p.
Removed(p, v) ==
    /\ m_state'[v] = "Detached"
    /\ v \notin Range(m_vp'[p])
    /\ IF m_state[v] = "Active"
       THEN /\ m_vp'[p] # <<>>
            /\ m_active'[p] = m_vp'[p][Len(m_vp'[p])]
            /\ m_state'[m_active'[p]] = "Active"
            /\ propCall'.fired[p] = 1
       ELSE /\ m_active'[p] = m_active[p]
            /\ propCall'.fired[p] = 0

\* C26: removing a provider leaves it Detached and out of the stack; if it was
\* Active, the topmost remaining provider becomes Active and P.changed fires
\* exactly once; if it was Inactive, the active provider is unchanged and
\* P.changed does not fire.
C26_RemoveRevertsToTop ==
    [][\A p \in Props :
          Removes(p) => (~propCall'.ub /\ Removed(p, propCall'.prov))]_vars

----------------------------------------------------------------------------
\* The binding scope.

\* C24: the dependencies of a binding are the properties its own expression
\* reads: a read that another thread makes while the binding is evaluated
\* leaves no source record and no connection for the binding.
C24_ScopeIsPerThread ==
    \A b \in ProvIds :
        m_expression[b] # NoProp =>
            /\ Range(m_sourceProperties[b]) \subseteq {m_expression[b]}
            /\ \A q \in Props \ {m_expression[b]} :
                   \A i \in 1..Len(changed[q]) : changed[q][i].by # b

----------------------------------------------------------------------------
\* Two threads on one signal.

\* The user code of the callable thread t activated is running.
InCallable(t) == threads[t].at = "callable"

\* The locks thread t holds.
HoldsSignal(t) == sigHolder = t
SlotsHeld(t) == {k \in ConnIds : slotHolder[k] = t}

\* C27: while the callable of a slot runs, the emitting thread holds neither
\* the lock of the signal nor the lock of a slot, apart from the lock a call
\* the callable itself makes is holding; so a disconnect or connect the
\* callable calls never waits for a lock of its own thread.
C27_CallableRunsUnlocked ==
    \A t \in Threads :
        InCallable(t) =>
            /\ ~InCall(t) => (~HoldsSignal(t) /\ SlotsHeld(t) = {})
            /\ WantsSignal(t) => ~HoldsSignal(t)
            /\ (InCall(t) /\ WantsSlot(t)) => SlotOf(t) \notin SlotsHeld(t)

\* The callable of slot 1 has disconnected its own slot and is still running;
\* the other thread has made no call.
C27_Witness ==
    /\ InCallable(1) /\ ~InCall(1)
    /\ threads[1].slots[threads[1].idx + 1] = 1
    /\ disconnected = {1} /\ ~m_isConnected[1]
    /\ threads[2] = IdleThread

\* Thread t waits for a mutex thread u holds.
Waits(t, u) ==
    \/ WantsSignal(t) /\ sigHolder = u
    \/ WantsSlot(t) /\ slotHolder[SlotOf(t)] = u

\* Thread t is outside the library.
Outside(t) == threads[t].at = "idle" /\ ~InCall(t)

\* C28: a thread that goes for the lock of the signal holds the lock of no
\* slot, and no thread waits for a mutex that will never be released: one it
\* holds itself, one held by a thread that waits for it in turn, or one held
\* by a thread that has left the library.
C28_NoDeadlock ==
    /\ \A t \in Threads : WantsSignal(t) => SlotsHeld(t) = {}
    /\ \A t \in Threads, u \in Threads :
           Waits(t, u) => ~(u = t \/ Waits(u, t) \/ Waits(u, u) \/ Outside(u))

\* Thread 2 is in the catch block of its emission, inside the disconnect of
\* the signal and holding the lock of the signal, while thread 1 waits for
\* that lock.
C28_Witness ==
    /\ threads[2].at = "catch"
    /\ threads[2].call.op = "signal_disconnect"
    /\ HoldsSignal(2)
    /\ WantsSignal(1) /\ Waits(1, 2)

\* Thread t has locked m_emitGuard and has not unlocked it yet: it is in the
\* dispatch loop of its emission.
InDispatch(t) == threads[t].at \notin {"idle", "guard"}

\* C29: at most one thread is inside the dispatch loop of the signal, no
\* assertion of the guard has failed, and the flag is set while a thread is
\* in the loop.
C29_GuardIsAtomic ==
    /\ Cardinality({t \in Threads : InDispatch(t)}) <= 1
    /\ guardFault = {}
    /\ \A t \in Threads : InDispatch(t) => m_emitGuard[Shared]

\* C30: no emission starts to invoke the callable of a slot whose
\* disconnect() had already returned: a disconnect that is complete before
\* the call is never ignored.
C30_DisconnectedSlotNotInvoked ==
    \A t \in Threads : \A i \in 1..Len(threads[t].ran) : ~threads[t].ran[i].late

----------------------------------------------------------------------------
\* Signals connected in a cycle.

\* The thread that runs the program keeps running: the library, and the
\* callables it runs, take their next step.
LifeFair == LifeSpec /\ WF_vars(LifeNext)

\* Signal s forwards to signal r by a connected forwarding slot.
Forwards(s, r) ==
    \E c \in ForwardingSlots : owner[c] = s /\ m_receiver[c] = r /\ Connected(c)

\* Signal s lies on a cycle of forwarding slots.
OnCycle(s) == \E r \in Signals : Forwards(s, r) /\ Forwards(r, s)

\* The signals whose dispatch loop is running while frame f runs, f being
\* the i-th frame of the stack, or the frame just returned when i is the
\* depth of the stack plus one.
LoopsBelow(f, i) == {stack[j].sig : j \in 1..(i - 1)} \cup {f.sig}

\* No turn of frame f has run the dispatch loop of a signal whose loop was
\* running already, and a turn was refused for being "emitting" only by such
\* a signal.
OneLoopEach(f, i) ==
    \A t \in 1..Len(f.turns) :
        LET c == f.turns[t].conn
        IN  (c \in ForwardingSlots /\ f.turns[t].activated) =>
                /\ m_receiver[c] \in LoopsBelow(f, i) => ForwardOf(f, t) # "ran"
                /\ ForwardOf(f, t) = "emitting" => m_receiver[c] \in LoopsBelow(f, i)

\* C31: with signals connected in a cycle, no signal has two dispatch loops
\* running: a forwarding slot that comes back to a signal on its way runs no
\* second loop of it; an emit that returns normally has given every slot of
\* its snapshot one turn and activated those still connected; and every
\* emission comes to its end.
C31_CycleTerminates ==
    /\ [](\A i \in 1..Len(stack) :
              /\ \A j \in 1..Len(stack) : stack[i].sig = stack[j].sig => i = j
              /\ OneLoopEach(stack[i], i))
    /\ [](lastCall.how = "normal" =>
              /\ OneLoopEach(lastCall.frame, Len(stack) + 1)
              /\ Complete(lastCall.frame)
              /\ \A t, u \in 1..Len(lastCall.frame.turns) :
                     lastCall.frame.turns[t].conn = lastCall.frame.turns[u].conn => t = u)
    /\ [](exc = "abort" => \E s \in Signals : ~sigAlive[s])
    /\ (stack # <<>>) ~> (stack = <<>> \/ exc = "abort")

\* An emit on signal 1 has returned normally with the two signals connected
\* in a cycle: its forwarding slot ran the loop of signal 2 once.
C31_Witness ==
    /\ stack = <<>>
    /\ lastCall.how = "normal"
    /\ OnCycle(lastCall.sig)
    /\ \E t \in 1..Len(lastCall.frame.turns) :
          /\ m_receiver[lastCall.frame.turns[t].conn] # lastCall.sig
          /\ lastCall.frame.turns[t].forward = "ran"

----------------------------------------------------------------------------
\* Blocking a signal from one of its slots.  Beside the two revisions of
\* comp/ the repository holds the revision "sywu" of the signal core
\* (include/sywu/signal.hpp, include/sywu/impl/signal_impl.hpp), whose
\* dispatch loop tests the blocked flag before each connection.  Its
\* connections are kept in m_slots, and m_isConnected of a connection tells
\* that its sender is set.

\* Faulty variant: the blocked flag always reads false.
NeverBlocked(s) == FALSE

\* sywu::SignalConcept::isBlocked
Sywu_isBlocked(s) == m_isBlocked[s]

\* sywu::SignalConceptImpl::operator() up to the dispatch loop: the copy of
\* m_connections is taken as it is.
Sywu_emit(s) ==
    /\ variant = "sywu" /\ Call
    /\ sigAlive[s]
    /\ IF Sywu_isBlocked(s) \/ FlagGuard_isLocked(m_emitGuard, s)
       THEN /\ lastCall' = Returned("suppressed", s, 0, NoFrame)
            /\ UNCHANGED <<m_emitGuard, stack>>
       ELSE /\ m_emitGuard' = lock_guard_ctor(m_emitGuard, s)
            /\ stack' = Append(stack, Frame(s, m_slots[s],
                            {k \in Created : owner[k] = s /\ Connected(k)}, nextId))
            /\ lastCall' = NoCall
    /\ ops' = ops + 1
    /\ UNCHANGED <<variant, propVars, threadVars, lifeVars, m_isBlocked, nextId, owner, slotLock,
                   exc, alive, owned, implVars, conceptVars, history>>

\* One turn of the dispatch loop of sywu::SignalConceptImpl::operator():
\* when the signal is blocked the loop is left and emit returns the count;
\* a connection that is not valid is passed over (getSender() of a
\* connection disconnected by its handle is null); a valid one is invoked
\* with its lock released.
Sywu_emit_loop ==
    /\ variant = "sywu" /\ InLoop
    /\ Top.idx < Len(Top.slots)
    /\ LET f == Top
           n == Len(stack)
           k == Current(Top)
           locked == lock_guard_ctor(slotLock, k)
       IN  IF Sywu_isBlocked(f.sig)
           THEN /\ stack' = Pop(stack)
                /\ m_emitGuard' = lock_guard_dtor(m_emitGuard, f.sig)
                /\ lastCall' = Returned("blocked", f.sig, f.result, f)
                /\ UNCHANGED slotLock
           ELSE /\ ~slotLock[k]
                /\ IF ~m_isConnected[k]
                   THEN /\ stack' = [stack EXCEPT ![n] = [f EXCEPT !.idx = @ + 1,
                                        !.turns = Append(@, Turn(k, FALSE, FALSE, FALSE))]]
                        /\ slotLock' = lock_guard_dtor(locked, k)
                   ELSE /\ stack' = [stack EXCEPT ![n] = [f EXCEPT !.active = TRUE,
                                        !.turns = Append(@, Turn(k, TRUE, TRUE, FALSE))]]
                        /\ slotLock' = relock_guard_ctor(locked, k)
                /\ lastCall' = NoCall
                /\ UNCHANGED m_emitGuard
    /\ UNCHANGED <<variant, propVars, threadVars, lifeVars, m_isBlocked, nextId, owner, exc, ops,
                   alive, owned, implVars, conceptVars, history>>

\* The invoker returns: ++count, the turn ends.
Sywu_slot_return ==
    /\ variant = "sywu" /\ SlotReturns
    /\ LET f == Top
           n == Len(stack)
           k == Current(Top)
       IN  /\ stack' = [stack EXCEPT ![n] = [f EXCEPT !.idx = @ + 1, !.active = FALSE,
                                                     !.result = @ + 1]]
           /\ slotLock' = lock_guard_dtor(relock_guard_dtor(slotLock, k), k)
    /\ lastCall' = NoCall
    /\ UNCHANGED <<variant, propVars, threadVars, lifeVars, m_isBlocked, m_emitGuard, nextId, owner,
                   exc, ops, alive, owned, implVars, conceptVars, history>>

\* sywu::Connection::disconnect on a handle the program holds: the slot is
\* disconnected under its lock and the sender is reset.  The program calls
\* it once on a connection: a second call would dereference the slot that
\* the first one released.
Sywu_handle_disconnect(k) ==
    /\ variant = "sywu" /\ Call
    /\ k \in Created /\ m_isConnected[k]
    /\ ~slotLock[k]
    /\ m_isConnected' = [m_isConnected EXCEPT ![k] = FALSE]
    /\ disconnected' = disconnected \cup {k}
    /\ ops' = ops + 1
    /\ lastCall' = NoCall
    /\ UNCHANGED <<variant, propVars, threadVars, lifeVars, m_isBlocked, m_emitGuard, nextId, owner,
                   stack, slotLock, exc, alive, owned, implVars, m_slots, m_trackers,
                   m_trackedConnections, connectedInEmit>>

\* Programs of function slots in each of the three revisions.
BlockInit ==
    /\ variant \in {"impl", "concept", "sywu"}
    /\ nextId = InitSlots + 1
    /\ m_isBlocked = [s \in Signals |-> FALSE]
    /\ m_emitGuard = [s \in Signals |-> FALSE]
    /\ owner = [c \in ConnIds |-> IF c < nextId THEN InitSignal(c) ELSE NULL]
    /\ stack = <<>>
    /\ slotLock = [c \in ConnIds |-> FALSE]
    /\ exc = "none"
    /\ lastCall = NoCall
    /\ ops = 0
    /\ alive = [o \in Objects |-> TRUE]
    /\ owned = [r \in Receivers |-> TRUE]
    /\ m_connections = [s \in Signals |->
           IF variant = "impl" THEN InitSlotsOf(s, nextId - 1) ELSE <<>>]
    /\ m_signal = [c \in ConnIds |-> IF variant = "impl" /\ c < nextId THEN InitSignal(c) ELSE NULL]
    /\ m_target = [c \in ConnIds |-> "none"]
    /\ m_observers = <<>>
    /\ m_slots = [s \in Signals |->
           IF variant # "impl" THEN InitSlotsOf(s, nextId - 1) ELSE <<>>]
    /\ m_isConnected = [c \in ConnIds |-> variant # "impl" /\ c < nextId]
    /\ m_trackers = [c \in ConnIds |-> <<>>]
    /\ m_trackedConnections = <<>>
    /\ sigAlive = [s \in Signals |-> TRUE]
    /\ m_host = [s \in Signals |-> "none"]
    /\ hostOwned = FALSE
    /\ m_receiver = [c \in ConnIds |-> NULL]
    /\ sig_observers = [s \in Signals |-> <<>>]
    /\ sig_tracked = [s \in Signals |-> <<>>]
    /\ NoProperties
    /\ NoThreads
    /\ disconnected = {}
    /\ connectedInEmit = {}

BlockNext ==
    \/ \E c \in ConnIds : Impl_handle_disconnect(c)
    \/ \E s \in Signals : Impl_emit(s)
    \/ Impl_emit_loop
    \/ Impl_slot_return
    \/ \E k \in ConnIds : Concept_handle_disconnect(k)
    \/ \E s \in Signals : Concept_emit(s)
    \/ Concept_emit_loop
    \/ \E goOn \in BOOLEAN : Concept_slot_return(goOn)
    \/ \E k \in ConnIds : Sywu_handle_disconnect(k)
    \/ \E s \in Signals : Sywu_emit(s)
    \/ Sywu_emit_loop
    \/ Sywu_slot_return
    \/ \E s \in Signals, b \in BOOLEAN : setBlocked(s, b)
    \/ emit_return

BlockSpec == BlockInit /\ [][BlockNext]_vars

----------------------------------------------------------------------------
\* The backreferences of trackers.

\* C33: once disconnect() of a slot has returned, no list of tracked
\* connections holds the slot: not the list of a ConnectionTracker bound to
\* it, and not the list of the receiver signal of a forwarding slot.
C33_DisconnectUntracksAll ==
    variant = "concept" =>
        \A k \in disconnected :
            /\ ~Contains(m_trackedConnections, k)
            /\ \A s \in Signals : ~Contains(sig_tracked[s], k)

\* Slot k is connected and invalid: its flag is set and a tracker bound to it
\* has died.
ConnectedInvalid(k) ==
    /\ m_isConnected[k]
    /\ \E i \in 1..Len(m_trackers[k]) : ~TrackerInterface_isValid(m_trackers[k][i])

\* The step is one in which the library calls isConnected() on slot k: the
\* turn of k in a dispatch loop, or the sweep of the slots of its signal
\* with which an emission begins.
ChecksConnected(k) ==
    \/ /\ InLoop /\ Top.idx < Len(Top.slots) /\ Current(Top) = k
       /\ Len(stack') = Len(stack)
       /\ Len(stack'[Len(stack)].turns) = Len(Top.turns) + 1
    \/ /\ Len(stack') = Len(stack) + 1
       /\ stack'[Len(stack')].sig = owner[k]
       /\ Contains(m_slots[owner[k]], k)

\* C34: a slot of which a tracker has died is disconnected by the next
\* isConnected() check made on it: after the step its flag is clear, the
\* ConnectionTracker bound to it has dropped its backreference, and its
\* signal does not hold it.
C34_InvalidSlotIsDisconnected ==
    [][\A k \in Created :
           (variant = "concept" /\ ConnectedInvalid(k) /\ ChecksConnected(k)) =>
               /\ ~m_isConnected'[k]
               /\ m_trackers'[k] = <<>>
               /\ ~Contains(m_trackedConnections', k)
               /\ ~Contains(m_slots'[owner[k]], k)]_vars

----------------------------------------------------------------------------
\* The subscriptions of a binding.

\* The connections of q.changed that provider v tracks.
Subscriptions(v, q) == {i \in 1..Len(changed[q]) : changed[q][i].by = v}

\* C35: after any number of evaluations, the active binding of P whose
\* expression reads Q owns exactly one connection of Q.changed, which forwards
\* to P.changed, and a set of Q that changes Q fires P.changed exactly once.
C35_OneSubscriptionPerBinding ==
    /\ [](\A p \in Props, q \in Props :
              (AllPropsAlive /\ ~propCall.ub /\ BoundTo(p, q)) =>
                  /\ Cardinality(Subscriptions(m_active[p], q)) = 1
                  /\ \A i \in Subscriptions(m_active[p], q) : changed[q][i].to = p)
    /\ [][\A p \in Props, q \in Props :
              (p # q /\ AllPropsAlive /\ BoundTo(p, q) /\ Completes("set", q)
                 /\ propCall'.fired[q] = 1 /\ m_active'[p] = m_active[p]) =>
                  propCall'.fired[p] = 1]_vars

----------------------------------------------------------------------------
\* A write to a bound property.

\* The active provider of p is a binding with write policy Discard.
ActiveDiscardBinding(p) ==
    /\ propAlive[p]
    /\ m_active[p] # NULL
    /\ m_state[m_active[p]] = "Active"
    /\ m_expression[m_active[p]] # NoProp
    /\ writeBehavior[m_active[p]] = "Discard"

\* C36: a set of P whose active provider is a Discard binding fires P.changed
\* exactly once, whatever the value set and whatever the value of the Keep
\* provider that becomes active again.
C36_SetOnBindingFiresOnce ==
    [][\A p \in Props :
          (ActiveDiscardBinding(p) /\ Completes("set", p)) => propCall'.fired[p] = 1]_vars

----------------------------------------------------------------------------
\* The value at a notification.

\* The call that completes in the step is one of the calls that change the
\* value or the providers of p.
Changes(p) ==
    \E op \in {"set", "add", "remove", "bind"} : Completes(op, p)

\* C37: whenever P.changed fires in a set, add_provider, remove_provider or
\* bind of P, a read of P returns another value than at the previous firing
\* of P.changed, or than at construction when it fires for the first time.
C37_ChangedMeansNewValue ==
    [][\A p \in Props : Changes(p) => p \notin propCall'.repeated]_vars

\* C37 amended: a firing of P.changed made by a set that leaves the active
\* provider of P in place comes with a new value, while the activation of a
\* provider in add_provider or bind fires P.changed whatever the value.
C37_SetMeansNewValue ==
    [][\A p \in Props :
          /\ (Completes("set", p) /\ m_active'[p] = m_active[p]) => p \notin propCall'.repeated
          /\ (Completes("add", p) \/ Completes("bind", p)) => propCall'.fired[p] > 0]_vars

\* A set that is not the first call has stored a new value in the provider P
\* was constructed with, no other provider having been made, and P.changed
\* has fired once, for the value set.
C37_Witness ==
    /\ propCall.op = "set" /\ propCall.prop = "P" /\ ~propCall.ub
    /\ propCall.fired["P"] = 1
    /\ "P" \notin propCall.repeated
    /\ propCall.observed["P"] = propCall.value
    /\ m_active["P"] = Floor("P")
    /\ nextProv = Cardinality(Props) + 1
    /\ pops > 1

----------------------------------------------------------------------------
\* The states of a provider.

\* The changes of state of the provider life cycle.
LifeCycle ==
    {<<"Detached", "Attaching">>, <<"Attaching", "Inactive">>, <<"Inactive", "Active">>,
     <<"Active", "Inactive">>, <<"Inactive", "Detaching">>, <<"Detaching", "Detached">>}

----------------------------------------------------------------------------
\* Programs whose expressions read several properties, bound properties among
\* them: the evaluation of a binding runs read by read, and a read of a bound
\* property evaluates that binding inside the expression that reads it.

MaxReads == 3

\* The reads made since the evaluation in progress began.
ReadCount ==
    Cardinality({i \in 1..Len(evaluation.log) : evaluation.log[i].ev \in {"read", "other"}})

\* The properties whose lock the evaluations in progress hold.
HeldByScopes == {pv_target[evaluation.stack[i].binding] : i \in 1..Len(evaluation.stack)}

\* T(property) outside any expression.  The active provider returns its value;
\* when it is a binding, evaluateOverride opens a BindingScope, which saves
\* BindingScope::current and stores the binding in it, and BindingConcept drops
\* what its last evaluation tracked.
Nest_get(p) ==
    /\ PropCall /\ propAlive[p]
    /\ evaluation.stack = <<>>
    /\ m_active[p] # NULL
    /\ LET v == m_active[p]
       IN  IF m_expression[v] = NoProp
           THEN /\ SetState(PropState)
                /\ UNCHANGED <<BindingScope_current, evaluation>>
                /\ propCall' = [NoPropCall EXCEPT !.op = "get", !.prop = p, !.prov = v,
                                                  !.value = m_data[v],
                                                  !.observed = propCall.observed]
           ELSE /\ SetState(IF bindingClass = "BindingConcept"
                            THEN Value_reset(PropState, v) ELSE PropState)
                /\ evaluation' = [evaluation EXCEPT
                       !.at = "expression",
                       !.stack = <<[binding |-> v, previousValue |-> BindingScope_current]>>,
                       !.log = <<[ev |-> "enter", by |-> v, of |-> p]>>]
                /\ BindingScope_current' = v
                /\ propCall' = [NoPropCall EXCEPT !.op = "evaluate", !.prop = p, !.prov = v,
                                                  !.observed = propCall.observed]
    /\ pops' = pops + 1
    /\ UNCHANGED <<signalVars, lockVars, bindingClass, nextProv>>

\* The expression that is executing reads property q, a property no
\* evaluation in progress belongs to.  PropertyValue::evaluate of the active
\* provider of q tracks q for BindingScope::current when that is not null and
\* calls evaluateOverride, which opens the next BindingScope when the provider
\* is a binding.
Nest_read(q) ==
    /\ evaluation.stack # <<>>
    /\ ~propCall.ub
    /\ ReadCount < MaxReads
    /\ propAlive[q] /\ m_active[q] # NULL
    /\ q \notin HeldByScopes
    /\ LET a == m_active[q]
           b == evaluation.stack[Len(evaluation.stack)].binding
           tracked == IF BindingScope_current # NULL
                      THEN trackProperty(PropState, BindingScope_current, q)
                      ELSE PropState
           read == [ev |-> "read", by |-> b, of |-> q]
       IN  IF m_expression[a] = NoProp
           THEN /\ SetState(tracked)
                /\ evaluation' = [evaluation EXCEPT !.log = Append(@, read),
                                                    !.made = @ \cup {<<b, q>>}]
                /\ UNCHANGED BindingScope_current
           ELSE /\ SetState(IF bindingClass = "BindingConcept"
                            THEN Value_reset(tracked, a) ELSE tracked)
                /\ evaluation' = [evaluation EXCEPT
                       !.stack = Append(@, [binding |-> a,
                                            previousValue |-> BindingScope_current]),
                       !.log = Append(Append(@, read), [ev |-> "enter", by |-> a, of |-> q]),
                       !.made = @ \cup {<<b, q>>}]
                /\ BindingScope_current' = a
    /\ UNCHANGED <<signalVars, lockVars, bindingClass, nextProv, propCall, pops>>

\* The expression that is executing returns or throws: ~BindingScope stores
\* the saved provider in BindingScope::current and evaluate returns to the
\* expression that made the read, or to the program.
Nest_return(how) ==
    /\ evaluation.stack # <<>>
    /\ LET scope == evaluation.stack[Len(evaluation.stack)]
           rest == SubSeq(evaluation.stack, 1, Len(evaluation.stack) - 1)
       IN  /\ BindingScope_current' = scope.previousValue
           /\ evaluation' = [evaluation EXCEPT
                  !.at = IF rest = <<>> THEN "idle" ELSE "expression",
                  !.stack = rest,
                  !.log = IF rest = <<>> THEN <<>>
                          ELSE Append(@, [ev |-> how, by |-> scope.binding, of |-> NoProp])]
    /\ UNCHANGED <<signalVars, lockVars, propVars>>

\* The state a read of the other thread starts from: the evaluations in
\* progress hold the locks of their bindings and of the properties of these.
HeldByNest ==
    [Build("deadlock") EXCEPT
        !.heldV = {evaluation.stack[i].binding : i \in 1..Len(evaluation.stack)},
        !.heldP = HeldByScopes]

\* Another thread reads property r, outside any expression, while an
\* evaluation is in progress; it waits when the read meets a lock the
\* evaluating thread holds.  BindingScope::current is one object for all
\* threads.
Nest_other(r) ==
    /\ evaluation.stack # <<>>
    /\ ~propCall.ub
    /\ ReadCount < MaxReads
    /\ propAlive[r] /\ m_active[r] # NULL
    /\ LET st == PropertyValue_evaluate(HeldByNest, m_active[r], BindingScope_current, {})
       IN  /\ ~Stuck(st)
           /\ SetState(st)
           /\ propCall' = [propCall EXCEPT !.ub = st.ub, !.reads = @ + 1]
    /\ evaluation' = [evaluation EXCEPT !.log = Append(@, [ev |-> "other", by |-> NULL, of |-> r])]
    /\ UNCHANGED <<signalVars, lockVars, bindingClass, nextProv, pops, BindingScope_current>>

NestNext ==
    \/ \E p \in Props, source \in Props : Prop_bind(p, source)
    \/ \E p \in Props : Nest_get(p)
    \/ \E q \in Props : Nest_read(q)
    \/ \E how \in {"return", "throw"} : Nest_return(how)
    \/ \E r \in Props : Nest_other(r)

NestSpec == PropInit /\ [][NestNext]_vars

\* The binding whose expression is executing, null when none is.
Innermost ==
    IF evaluation.stack = <<>> THEN NULL
    ELSE evaluation.stack[Len(evaluation.stack)].binding

\* The expression of binding v has read property q: in the evaluation its
\* activation made, or in a later one.
Made(v, q) == q = m_expression[v] \/ <<v, q>> \in evaluation.made

\* The step is a read of property q by the expression of binding b.
Reads(b, q) ==
    /\ Len(evaluation'.log) > Len(evaluation.log)
    /\ evaluation'.log[Len(evaluation.log) + 1] = [ev |-> "read", by |-> b, of |-> q]

\* The step is a read of property r by a thread that executes no expression.
ReadsOutside(r) ==
    /\ Len(evaluation'.log) > Len(evaluation.log)
    /\ evaluation'.log[Len(evaluation.log) + 1] = [ev |-> "other", by |-> NULL, of |-> r]

\* On the thread that evaluates, BindingScope::current is the innermost
\* binding whose expression is executing and null when none is, and every read
\* an expression makes is recorded for its own binding, also after a nested
\* evaluation has returned or thrown.
NestedScopes ==
    /\ [](BindingScope_current = Innermost)
    /\ [][\A b \in ProvIds, q \in Props :
              Reads(b, q) =>
                  /\ Contains(m_sourceProperties'[b], q)
                  /\ \E i \in Subscriptions(b, q)' : changed'[q][i].to = pv_target[b]]_vars

\* C39: BindingScope::current is the innermost binding whose expression is
\* executing on the thread and null when none is executing on it; every read
\* an expression makes is recorded for its own binding, also after a nested
\* evaluation has returned or thrown, and nothing is recorded for a binding
\* whose expression has not made the read.
C39_ScopeIsInnermost ==
    /\ NestedScopes
    /\ [][\A r \in Props : ReadsOutside(r) => BindingScope_current = NULL]_vars
    /\ [](\A v \in ProvIds, q \in Props :
              (Contains(m_sourceProperties[v], q) \/ Subscriptions(v, q) # {}) => Made(v, q))

----------------------------------------------------------------------------
\* The registration of dependencies.

\* How often x is in seq.
Count(seq, x) == Cardinality({i \in 1..Len(seq) : seq[i] = x})

\* C40: between calls, a binding lists a property as a source as often as the
\* property lists the binding as a dependent, and at most once, however often
\* the binding was evaluated; the destruction of a property calls removeSelf
\* exactly once on each of its dependents, which is attached at that time.
C40_DependenciesSymmetric ==
    /\ [](~propCall.ub =>
              \A v \in ProvIds, q \in Props :
                  propAlive[q] =>
                      /\ Count(m_sourceProperties[v], q) = Count(m_connectedPropertyValues[q], v)
                      /\ Count(m_sourceProperties[v], q) <= 1)
    /\ [][\A q \in Props :
              Destroys(q) =>
                  \A v \in Range(m_connectedPropertyValues[q]) :
                      /\ Count([i \in 1..Len(propCall'.removals) |-> propCall'.removals[i].of], v) = 1
                      /\ \A i \in 1..Len(propCall'.removals) :
                             propCall'.removals[i].of = v => propCall'.removals[i].attached]_vars

====
